---- MODULE Spec2Model ----
(***************************************************************************)
(* A model of the rigid-body simulator of src/physics.js (the               *)
(* PhysicsEngine, Rectangle, Contact, ContactCache and DeterministicRandom  *)
(* classes of lines 1-924) as it is driven by the host page src/index.html. *)
(*                                                                         *)
(* Numbers.  A JavaScript Number x is represented by the integer            *)
(* round(x * Scale): fixed point with three decimal digits.  Products and   *)
(* quotients are rounded to the nearest representable value, symmetrically  *)
(* in the sign, as IEEE arithmetic is.  Integer-valued fields (ids, the     *)
(* tick counter, the generator's seed) are plain integers.                  *)
(***************************************************************************)
EXTENDS Integers, Sequences, FiniteSets, TLC

---------------------------------------------------------------------------
(* Fixed-point arithmetic                                                   *)

Scale == 1000

Abs(a) == IF a < 0 THEN -a ELSE a

Sgn(a) == IF a < 0 THEN -1 ELSE IF a > 0 THEN 1 ELSE 0

Min(a, b) == IF a < b THEN a ELSE b

Max(a, b) == IF a > b THEN a ELSE b

\* round(a * b / d) for a, b >= 0 and d > 0, without forming a * b
MulDiv(a, b, d) == (a \div d) * b + ((a % d) * b + d \div 2) \div d

\* x * y
Mul(x, y) ==
    LET a == Max(Abs(x), Abs(y))
        b == Min(Abs(x), Abs(y))
    IN  Sgn(x) * Sgn(y) * MulDiv(a, b, Scale)

\* x / y  (y # 0)
Div(x, y) == Sgn(x) * Sgn(y) * MulDiv(Abs(x), Scale, Abs(y))

\* the Number of an integer literal n
Num(n) == n * Scale

RECURSIVE SqrtIter(_, _)
SqrtIter(n, g) ==
    LET h == (g + n \div g) \div 2
    IN  IF h >= g THEN g ELSE SqrtIter(n, h)

\* floor of the square root of the integer n >= 0
ISqrt(n) == IF n = 0 THEN 0 ELSE SqrtIter(n, Min(n, 46340))

\* Math.sqrt(x * x + y * y) on representations: operands too large to square
\* are halved first
RECURSIVE Hypot(_, _)
Hypot(x, y) ==
    IF Max(Abs(x), Abs(y)) <= 32767
    THEN ISqrt(x * x + y * y)
    ELSE 2 * Hypot(Abs(x) \div 2, Abs(y) \div 2)

HalfPi == 1571
TwoPi == 6283

\* sine and cosine of r in [0, pi/2) by their Taylor polynomials, r2 = r * r
SinSeries(r, r2) ==
    Mul(r, Scale - Mul(r2, Scale - Mul(r2, Scale - r2 \div 42) \div 20) \div 6)

CosSeries(r2) ==
    Scale - Mul(r2, Scale - Mul(r2, Scale - Mul(r2, Scale - r2 \div 56) \div 30)
                                \div 12) \div 2

SinQ(r) == SinSeries(r, Mul(r, r))

CosQ(r) == CosSeries(Mul(r, r))

\* the sine and the cosine of the angle r in quadrant q
SinAt(q, r) ==
    (IF q < 2 THEN 1 ELSE -1) * (IF q % 2 = 0 THEN SinQ(r) ELSE CosQ(r))

CosAt(q, r) ==
    (IF q = 1 \/ q = 2 THEN -1 ELSE 1) * (IF q % 2 = 0 THEN CosQ(r) ELSE SinQ(r))

\* Math.sin(a), Math.cos(a)
Sin(a) == SinAt((a % TwoPi) \div HalfPi, (a % TwoPi) % HalfPi)

Cos(a) == CosAt((a % TwoPi) \div HalfPi, (a % TwoPi) % HalfPi)

\* x / n for an integer n > 0, rounded to nearest
DivInt(x, n) == Sgn(x) * ((Abs(x) + n \div 2) \div n)

---------------------------------------------------------------------------
(* Vector2                                                                  *)

Vector2(x, y) == [x |-> x, y |-> y]

add(a, b) == Vector2(a.x + b.x, a.y + b.y)

subtract(a, b) == Vector2(a.x - b.x, a.y - b.y)

multiply(v, scalar) == Vector2(Mul(v.x, scalar), Mul(v.y, scalar))

dot(a, b) == Mul(a.x, b.x) + Mul(a.y, b.y)

cross(a, b) == Mul(a.x, b.y) - Mul(a.y, b.x)

perpendicular(v) == Vector2(-v.y, v.x)

length(v) == Hypot(v.x, v.y)

\* v scaled to the length 1, given its length
scaledFrom(v, len) ==
    IF len = 0 THEN Vector2(0, 0) ELSE Vector2(Div(v.x, len), Div(v.y, len))

normalize(v) == scaledFrom(v, length(v))

---------------------------------------------------------------------------
(* DeterministicRandom: seed = (seed * 1103515245 + 12345) & 0x7fffffff,    *)
(* evaluated as JavaScript evaluates it: the product and then the sum are   *)
(* rounded to a double (53 significant bits, ties to even) before the       *)
(* conversion to a 32-bit integer.  The 62-bit product is kept in three     *)
(* limbs hi * 2^32 + mid * 2^16 + lo.                                       *)

InitialSeed == 12345

LcgIncrement == 12345

\* 1103515245 = LcgHigh * 2^16 + LcgLow
LcgHigh == 16838
LcgLow == 20077

Limb == 65536

Carry(l) ==
    LET m1 == l.mid + l.lo \div Limb
    IN  [hi |-> l.hi + m1 \div Limb, mid |-> m1 % Limb, lo |-> l.lo % Limb]

RECURSIVE Pow2Above(_)
\* the least power of two greater than x >= 0
Pow2Above(x) == IF x = 0 THEN 1 ELSE 2 * Pow2Above(x \div 2)

\* the spacing of the doubles at the magnitude of l: 1 below 2^53
Ulp(l) == Pow2Above(l.hi \div 2097152)

\* l rounded to a multiple of u, ties to the even multiple
RoundTo(l, u) ==
    LET low == l.lo % u
        up == \/ 2 * low > u
              \/ 2 * low = u /\ (l.lo \div u) % 2 = 1
    IN  IF u = 1 THEN l
        ELSE Carry([l EXCEPT !.lo = l.lo - low + (IF up THEN u ELSE 0)])

\* l rounded to a double
RoundDouble(l) == RoundTo(l, Ulp(l))

\* seed * 1103515245 for seed = s1 * 2^16 + s0, and prod + 12345, as doubles
LcgProduct(s1, s0) ==
    RoundDouble(Carry([hi |-> s1 * LcgHigh,
                       mid |-> s1 * LcgLow + s0 * LcgHigh,
                       lo |-> s0 * LcgLow]))

LcgSum(prod) == RoundDouble(Carry([prod EXCEPT !.lo = prod.lo + LcgIncrement]))

\* sum & 0x7fffffff
LowBits(sum) == (sum.mid % 32768) * Limb + sum.lo

\* DeterministicRandom.next: the new seed
NextSeed(seed) == LowBits(LcgSum(LcgProduct(seed \div Limb, seed % Limb)))

RECURSIVE Seeds(_, _)
\* the seeds after each of n calls of DeterministicRandom.next
Seeds(seed, n) ==
    IF n = 0 THEN <<>> ELSE <<NextSeed(seed)>> \o Seeds(NextSeed(seed), n - 1)

\* DeterministicRandom.next: the value returned, seed / 0x7fffffff
Unit(seed) == MulDiv(seed \div 2048, Scale, 1048576)

---------------------------------------------------------------------------
(* Rectangle                                                                *)

\* the mass and the inertia of a static body
Infinity == 2147483647

\* invInertia is of the order of 1e-3 and smaller: it is kept with three
\* more decimal digits than the other Numbers, and x * invInertia is
\* TimesInvInertia
InverseInertia(inertia) == Div(Num(Scale), inertia)

TimesInvInertia(x, body) == DivInt(Mul(x, body.invInertia), Scale)

\* Rectangle.generateRandomColor, given the seed after its call of random()
generateRandomColor(isStatic, seedAfter) ==
    IF isStatic THEN <<"#444444">>
    ELSE <<"hsl", Mul(Unit(seedAfter), Num(360)), "70%", "60%">>

\* new Rectangle(x, y, width, height, mass, isStatic), with the values of
\* Rectangle.nextId and the generator's seed at the call
Rectangle(x, y, width, height, mass, isStatic, id, seed) ==
    LET inertia == IF isStatic THEN Infinity
                   ELSE Div(Mul(mass, Mul(width, width) + Mul(height, height)),
                            Num(12))
    IN  [ position |-> Vector2(x, y),
          velocity |-> Vector2(0, 0),
          deltaVelocity |-> Vector2(0, 0),
          angle |-> 0,
          angularVelocity |-> 0,
          deltaAngularVelocity |-> 0,
          width |-> width,
          height |-> height,
          isStatic |-> isStatic,
          mass |-> IF isStatic THEN Infinity ELSE mass,
          invMass |-> IF isStatic THEN 0 ELSE Div(Num(1), mass),
          inertia |-> inertia,
          invInertia |-> IF isStatic THEN 0 ELSE InverseInertia(inertia),
          staticFriction |-> IF isStatic THEN 900 ELSE 600,
          dynamicFriction |-> IF isStatic THEN 700 ELSE 400,
          id |-> id,
          color |-> generateRandomColor(isStatic, NextSeed(seed)) ]

\* the seed after the constructor
SeedAfterRectangle(isStatic, seed) == IF isStatic THEN seed ELSE NextSeed(seed)

\* the corners of rect turned by the angle of cosine cos and sine sin
turnedVertices(rect, cos, sin) ==
    LET halfW == DivInt(rect.width, 2)
        halfH == DivInt(rect.height, 2)
        vertices == << Vector2(-halfW, -halfH), Vector2(halfW, -halfH),
                       Vector2(halfW, halfH), Vector2(-halfW, halfH) >>
    IN  [ i \in 1..4 |->
            Vector2(Mul(vertices[i].x, cos) - Mul(vertices[i].y, sin)
                      + rect.position.x,
                    Mul(vertices[i].x, sin) + Mul(vertices[i].y, cos)
                      + rect.position.y) ]

getVertices(rect) == turnedVertices(rect, Cos(rect.angle), Sin(rect.angle))

---------------------------------------------------------------------------
(* ContactCache                                                             *)

Digit == <<"0", "1", "2", "3", "4", "5", "6", "7", "8", "9">>

RECURSIVE IdString(_)
\* the decimal digits of n >= 0
IdString(n) ==
    IF n < 10 THEN <<Digit[n + 1]>>
    ELSE IdString(n \div 10) \o <<Digit[(n % 10) + 1]>>

\* Faulty variant, for C7: the key keeps the order of its arguments
generateKeyInOrder(idA, idB) == IdString(idA) \o <<"_">> \o IdString(idB)

\* ContactCache.generateKey, on the ids of the two bodies
generateKey(idA, idB) ==
    LET minId == Min(idA, idB)
        maxId == Max(idA, idB)
    IN  IdString(minId) \o <<"_">> \o IdString(maxId)

\* Faulty variant, for C28: the entry records the pair the other way round
ContactCacheSwapped(idA, idB) ==
    [ bodyA |-> idB,
      bodyB |-> idA,
      restingVelocityA |-> Vector2(0, 0),
      restingVelocityB |-> Vector2(0, 0),
      restingAngularVelocityA |-> 0,
      restingAngularVelocityB |-> 0,
      lastUpdateTime |-> 0,
      key |-> generateKey(idA, idB) ]

\* new ContactCache(bodyA, bodyB)
ContactCache(idA, idB) ==
    [ bodyA |-> idA,
      bodyB |-> idB,
      restingVelocityA |-> Vector2(0, 0),
      restingVelocityB |-> Vector2(0, 0),
      restingAngularVelocityA |-> 0,
      restingAngularVelocityB |-> 0,
      lastUpdateTime |-> 0,
      key |-> generateKey(idA, idB) ]

\* the Map contactCache is the sequence of its entries in insertion order
MapHas(map, key) == \E i \in 1..Len(map) : map[i].key = key

MapIndex(map, key) == CHOOSE i \in 1..Len(map) : map[i].key = key

MapSet(map, key, value) ==
    IF MapHas(map, key) THEN [map EXCEPT ![MapIndex(map, key)] = value]
    ELSE Append(map, value)

---------------------------------------------------------------------------
(* Contact                                                                  *)

\* new Contact(bodyA, bodyB, contactPoints, normal, penetrations)
Contact(idA, idB, contactPoints, normal, penetrations) ==
    LET zeros == [i \in 1..Len(contactPoints) |-> 0]
        falses == [i \in 1..Len(contactPoints) |-> FALSE]
    IN  [ bodyA |-> idA,
          bodyB |-> idB,
          contactPoints |-> contactPoints,
          normal |-> normal,
          tangent |-> normalize(perpendicular(normal)),
          penetrations |-> penetrations,
          collisionMasses |-> zeros,
          tangentialCollisionMasses |-> zeros,
          collisionMassesCalculated |-> falses,
          tangentialCollisionMassesCalculated |-> falses,
          normalForceMagnitudes |-> zeros ]

---------------------------------------------------------------------------
(* Collision detection                                                      *)

getRectangleAxes(vertices) ==
    [ i \in 1..4 |->
        normalize(perpendicular(subtract(vertices[(i % 4) + 1], vertices[i]))) ]

\* the least and the greatest of the four projections
minMax(p1, p2, p3, p4) ==
    [ min |-> Min(Min(p1, p2), Min(p3, p4)),
      max |-> Max(Max(p1, p2), Max(p3, p4)) ]

projectVertices(vertices, axis) ==
    minMax(dot(vertices[1], axis), dot(vertices[2], axis),
           dot(vertices[3], axis), dot(vertices[4], axis))

getCenter(vertices) ==
    multiply(add(add(vertices[1], vertices[2]), add(vertices[3], vertices[4])),
             Div(Num(1), Num(4)))

isPointInRectangle(point, rectVertices) ==
    \A i \in 1..4 :
        LET v1 == rectVertices[i]
            v2 == rectVertices[(i % 4) + 1]
        IN  ~ (cross(subtract(v2, v1), subtract(point, v1)) < 0)

\* vertices.filter(v => this.isPointInRectangle(v, rectVertices))
pointsInside(vertices, rectVertices) ==
    SelectSeq(vertices, LAMBDA v : isPointInRectangle(v, rectVertices))

findContactPoints(vertices, rect) == pointsInside(vertices, getVertices(rect))

\* One of the two axis loops of checkSATCollision.  s carries minOverlap and
\* separationAxis, and also the minimum-overlap axis of the rectangle whose
\* axes are tested (A if ownIsA) with that rectangle's projection on it.
RECURSIVE AxisLoop(_, _, _, _, _, _)

\* Faulty variant, for C11: two projections that only touch separate the pair
axisOverlapStrict(verticesA, verticesB, axes, ownIsA, i, s, projA, projB, overlap) ==
    IF overlap <= 0 THEN [s EXCEPT !.collision = FALSE]
    ELSE AxisLoop(verticesA, verticesB, axes, ownIsA, i + 1,
                  [s EXCEPT
                     !.minOverlap = IF overlap < s.minOverlap THEN overlap ELSE @,
                     !.separationAxis = IF overlap < s.minOverlap THEN axes[i] ELSE @,
                     !.minOverlapOwn = IF overlap < s.minOverlapOwn THEN overlap ELSE @,
                     !.minAxisOwn = IF overlap < s.minOverlapOwn THEN axes[i] ELSE @,
                     !.projOwn = IF overlap < s.minOverlapOwn
                                 THEN (IF ownIsA THEN projA ELSE projB) ELSE @])

\* the loop body after the overlap on axes[i] is known
axisOverlap(verticesA, verticesB, axes, ownIsA, i, s, projA, projB, overlap) ==
    IF overlap < 0 THEN [s EXCEPT !.collision = FALSE]
    ELSE AxisLoop(verticesA, verticesB, axes, ownIsA, i + 1,
                  [s EXCEPT
                     !.minOverlap = IF overlap < s.minOverlap THEN overlap ELSE @,
                     !.separationAxis = IF overlap < s.minOverlap THEN axes[i] ELSE @,
                     !.minOverlapOwn = IF overlap < s.minOverlapOwn THEN overlap ELSE @,
                     !.minAxisOwn = IF overlap < s.minOverlapOwn THEN axes[i] ELSE @,
                     !.projOwn = IF overlap < s.minOverlapOwn
                                 THEN (IF ownIsA THEN projA ELSE projB) ELSE @])

\* the loop body after the two projections on axes[i] are known
axisProjections(verticesA, verticesB, axes, ownIsA, i, s, projA, projB) ==
    axisOverlap(verticesA, verticesB, axes, ownIsA, i, s, projA, projB,
                Min(projA.max, projB.max) - Max(projA.min, projB.min))

AxisLoop(verticesA, verticesB, axes, ownIsA, i, s) ==
    IF i > 4 THEN s
    ELSE axisProjections(verticesA, verticesB, axes, ownIsA, i, s,
                         projectVertices(verticesA, axes[i]),
                         projectVertices(verticesB, axes[i]))

\* the state of the axis loops before the first axis
axisStart ==
    [ collision |-> TRUE,
      minOverlap |-> Infinity,
      separationAxis |-> Vector2(0, 0),
      minOverlapOwn |-> Infinity,
      minAxisOwn |-> Vector2(0, 0),
      projOwn |-> [min |-> 0, max |-> 0] ]

\* the distance of a point's projection to the nearer end of a projection
minDistTo(pointProjection, proj) ==
    Min(Abs(pointProjection - proj.min), Abs(pointProjection - proj.max))

\* Faulty variant, for C12: the axis of least overlap is the normal as found
satContactUnoriented(rectA, rectB, loopA, loopB, contactPoints, centerDir) ==
    [ collision |-> TRUE,
      contact |->
        Contact(rectA.id, rectB.id, contactPoints,
                loopB.separationAxis,
                [ k \in 1..Len(contactPoints) |->
                    Max(minDistTo(dot(contactPoints[k], loopA.minAxisOwn),
                                  loopA.projOwn),
                        minDistTo(dot(contactPoints[k], loopB.minAxisOwn),
                                  loopB.projOwn)) ]) ]

\* checkSATCollision after both axis loops found no separating axis
satContact(rectA, rectB, loopA, loopB, contactPoints, centerDir) ==
    [ collision |-> TRUE,
      contact |->
        Contact(rectA.id, rectB.id, contactPoints,
                IF dot(loopB.separationAxis, centerDir) < 0
                THEN multiply(loopB.separationAxis, Num(-1))
                ELSE loopB.separationAxis,
                [ k \in 1..Len(contactPoints) |->
                    Max(minDistTo(dot(contactPoints[k], loopA.minAxisOwn),
                                  loopA.projOwn),
                        minDistTo(dot(contactPoints[k], loopB.minAxisOwn),
                                  loopB.projOwn)) ]) ]

\* Faulty variant, for C13: no contact point is made up when none is found
contactPointsOfFound(found, rectA, rectB) == found

\* the contact points: the vertices found inside the other rectangle, or the
\* midpoint of the two centres if there are none
contactPointsOf(found, rectA, rectB) ==
    IF Len(found) = 0
    THEN << multiply(add(rectA.position, rectB.position), Scale \div 2) >>
    ELSE found

\* checkSATCollision after the loop over the axes of rectB
satAxesB(rectA, rectB, verticesA, verticesB, loopA, loopB) ==
    IF ~ loopB.collision THEN [collision |-> FALSE]
    ELSE satContact(rectA, rectB, loopA, loopB,
                    contactPointsOf(findContactPoints(verticesA, rectB)
                                      \o findContactPoints(verticesB, rectA),
                                    rectA, rectB),
                    subtract(getCenter(verticesB), getCenter(verticesA)))

\* checkSATCollision after the loop over the axes of rectA
satAxesA(rectA, rectB, verticesA, verticesB, loopA) ==
    IF ~ loopA.collision THEN [collision |-> FALSE]
    ELSE satAxesB(rectA, rectB, verticesA, verticesB, loopA,
                  AxisLoop(verticesA, verticesB, getRectangleAxes(verticesB),
                           FALSE, 1,
                           [axisStart EXCEPT
                              !.minOverlap = loopA.minOverlap,
                              !.separationAxis = loopA.separationAxis]))

\* checkSATCollision once the vertices of the two rectangles are known
satVertices(rectA, rectB, verticesA, verticesB) ==
    satAxesA(rectA, rectB, verticesA, verticesB,
             AxisLoop(verticesA, verticesB, getRectangleAxes(verticesA),
                      TRUE, 1, axisStart))

\* checkSATCollision(rectA, rectB): [collision |-> FALSE] for null
checkSATCollision(rectA, rectB) ==
    satVertices(rectA, rectB, getVertices(rectA), getVertices(rectB))

---------------------------------------------------------------------------
(* PhysicsEngine.  The operations are functions of a world w: the fields of *)
(* one engine, together with the state the engines of a page share: the     *)
(* Rectangle objects (rects, by id), Rectangle.nextId and the seed of the   *)
(* generator detRandom.  bodies, and the bodyA and bodyB of a contact or    *)
(* of a cache entry, hold ids; w.log lists the phases a call of update ran. *)

\* the canvas of index.html
worldWidth == 1200
worldHeight == 800

hz == 60

\* no body: the value of grabbedBody when nothing is grabbed
null == -1

gravity == Vector2(0, Div(Num(1), Num(hz)))

\* Faulty variant, for C24: the cache keeps an entry for a whole second
cacheTimeoutOfOneSecond == Mul(Num(hz), Num(1))

cacheTimeout == Mul(Num(hz), Scale \div 2)

Logged(w, phase) == [w EXCEPT !.log = Append(@, phase)]

\* Faulty variant, for C16: the constructor does not advance Rectangle.nextId
PushRectangleSameId(w, x, y, width, height, mass, isStatic) ==
    [w EXCEPT !.rects = (w.nextId :> Rectangle(x, y, width, height, mass, isStatic,
                                               w.nextId, w.seed)) @@ @,
              !.bodies = Append(@, w.nextId),
              !.seed = SeedAfterRectangle(isStatic, @)]

\* this.bodies.push(new Rectangle(x, y, width, height, mass, isStatic)), with
\* the constructor's effects on Rectangle.nextId and on the generator
PushRectangle(w, x, y, width, height, mass, isStatic) ==
    [w EXCEPT !.rects = (w.nextId :> Rectangle(x, y, width, height, mass, isStatic,
                                               w.nextId, w.seed)) @@ @,
              !.bodies = Append(@, w.nextId),
              !.nextId = @ + 1,
              !.seed = SeedAfterRectangle(isStatic, @)]

\* the body pushed last
newest(w) == w.bodies[Len(w.bodies)]

\* box.angle = 0.1 on the box just pushed
tilted(w) == [w EXCEPT !.rects[newest(w)].angle = Scale \div 10]

initializeWorld(w) ==
    tilted(PushRectangle(
               PushRectangle(w, DivInt(Num(worldWidth), 2), Num(worldHeight) - Num(25),
                             Num(worldWidth), Num(50), Num(1), TRUE),
               Num(200), Num(200), Num(50), Num(30), Num(1), FALSE))

\* new PhysicsEngine(worldWidth, worldHeight), given the shared state
PhysicsEngine(shared) ==
    initializeWorld(
        [ rects |-> shared.rects, nextId |-> shared.nextId, seed |-> shared.seed,
          log |-> <<>>,
          bodies |-> <<>>,
          contacts |-> <<>>,
          contactCache |-> <<>>,
          isPaused |-> FALSE,
          currentTime |-> 0,
          mousePosition |-> Vector2(0, 0),
          grabbedBody |-> null,
          grabOffset |-> Vector2(0, 0),
          isMouseDown |-> FALSE ])

\* the initial velocities of the box just pushed, drawn as s[7], s[8], s[9]
thrown(w, s) ==
    [w EXCEPT !.rects[newest(w)] =
                  [@ EXCEPT !.velocity = Vector2(Mul(Unit(s[7]) - Scale \div 2, Num(1)),
                                                 Mul(Unit(s[8]) - Scale \div 2, Num(5))),
                            !.angularVelocity = Mul(Unit(s[9]) - Scale \div 2,
                                                    Scale \div 2)],
              !.seed = s[9]]

\* addRandomBox, given the seeds s after each of its nine calls of random():
\* five for the box, one in the constructor (the colour), three for the
\* velocities
addRandomBoxDrawing(w, s) ==
    thrown(PushRectangle([w EXCEPT !.seed = s[5]],
                         Num(200) + Mul(Unit(s[3]), Num(100)),
                         Num(50) + Mul(Unit(s[4]), Num(200)),
                         Num(30) + Mul(Unit(s[1]), Num(40)),
                         Num(30) + Mul(Unit(s[2]), Num(40)),
                         Scale \div 2 + Mul(Unit(s[5]), Num(2)),
                         FALSE),
           s)

addRandomBox(w) == addRandomBoxDrawing(w, Seeds(w.seed, 9))

\* Faulty variant, for C23: detection makes a new entry for every colliding pair
ensuredAnew(map, idA, idB) ==
    MapSet(map, ContactCache(idA, idB).key, ContactCache(idA, idB))

\* the entry of the pair, created if the Map has none
ensured(map, idA, idB) ==
    IF ~ MapHas(map, ContactCache(idA, idB).key)
    THEN MapSet(map, ContactCache(idA, idB).key, ContactCache(idA, idB))
    ELSE map

\* Faulty variant, for C2: the entry of a colliding pair is created but never refreshed
touchContactCacheOnce(w, idA, idB) == ensured(w.contactCache, idA, idB)

\* the cache update of detectCollisions for a colliding pair: the Map afterwards
touchContactCache(w, idA, idB) ==
    [ensured(w.contactCache, idA, idB) EXCEPT
        ![MapIndex(ensured(w.contactCache, idA, idB),
                   ContactCache(idA, idB).key)].lastUpdateTime = w.currentTime]

\* Faulty variant, for C27: the entry of a colliding pair is made but not stamped
collidedUnstamped(w, idA, idB, collision) ==
    IF collision.collision
    THEN [w EXCEPT !.contacts = Append(@, collision.contact),
                   !.contactCache = ensured(@, idA, idB)]
    ELSE w

\* the body of the loops of detectCollisions, given the result of the test
collided(w, idA, idB, collision) ==
    IF collision.collision
    THEN [w EXCEPT !.contacts = Append(@, collision.contact),
                   !.contactCache = touchContactCache(w, idA, idB)]
    ELSE w

RECURSIVE detectLoop(_, _, _)
detectLoop(w, i, j) ==
    IF i > Len(w.bodies) THEN w
    ELSE IF j > Len(w.bodies) THEN detectLoop(w, i + 1, i + 2)
    ELSE detectLoop(collided(w, w.bodies[i], w.bodies[j],
                             checkSATCollision(w.rects[w.bodies[i]],
                                               w.rects[w.bodies[j]])),
                    i, j + 1)

detectCollisions(w) ==
    detectLoop(Logged([w EXCEPT !.contacts = <<>>], "detectCollisions"), 1, 2)

resetDeltaVelocities(w) ==
    Logged([w EXCEPT !.rects =
              [id \in DOMAIN @ |->
                 IF \E k \in 1..Len(w.bodies) : w.bodies[k] = id
                 THEN [@[id] EXCEPT !.deltaVelocity = Vector2(0, 0),
                                    !.deltaAngularVelocity = 0]
                 ELSE @[id]]],
           "resetDeltaVelocities")

applyForces(w) ==
    Logged([w EXCEPT !.rects =
              [id \in DOMAIN @ |->
                 IF (\E k \in 1..Len(w.bodies) : w.bodies[k] = id)
                    /\ ~ @[id].isStatic
                 THEN [@[id] EXCEPT !.velocity = add(@, gravity),
                                    !.deltaVelocity = add(@, gravity)]
                 ELSE @[id]]],
           "applyForces")

integrateMotion(w) ==
    Logged([w EXCEPT !.rects =
              [id \in DOMAIN @ |->
                 IF (\E k \in 1..Len(w.bodies) : w.bodies[k] = id)
                    /\ ~ @[id].isStatic
                 THEN [@[id] EXCEPT !.position = add(@, w.rects[id].velocity),
                                    !.angle = @ + w.rects[id].angularVelocity]
                 ELSE @[id]]],
           "integrateMotion")

\* (r x direction)^2 * invInertia of a body
rotTerm(rCrossDirection, body) ==
    TimesInvInertia(Mul(rCrossDirection, rCrossDirection), body)

\* the inverse of the effective mass of the pair at contactPoint along
\* direction
invEffectiveMass(bodyA, bodyB, contactPoint, direction) ==
    bodyA.invMass + bodyB.invMass
      + rotTerm(cross(subtract(contactPoint, bodyA.position), direction), bodyA)
      + rotTerm(cross(subtract(contactPoint, bodyB.position), direction), bodyB)

\* Faulty variant, for C15: a pair without inverse mass gets the mass 1
effectiveMassOrOne(inverse) == IF inverse > 0 THEN Div(Num(1), inverse) ELSE Num(1)

\* invEffectiveMass > 0 ? 1.0 / invEffectiveMass : 0
effectiveMass(inverse) == IF inverse > 0 THEN Div(Num(1), inverse) ELSE 0

\* calculateCollisionMass(contact, contactPointIndex): the contact afterwards
calculateCollisionMass(w, contact, i) ==
    IF contact.collisionMassesCalculated[i] THEN contact
    ELSE [contact EXCEPT
            !.collisionMasses[i] =
                effectiveMass(invEffectiveMass(w.rects[contact.bodyA],
                                               w.rects[contact.bodyB],
                                               contact.contactPoints[i],
                                               contact.normal)),
            !.collisionMassesCalculated[i] = TRUE,
            !.tangentialCollisionMasses[i] =
                effectiveMass(invEffectiveMass(w.rects[contact.bodyA],
                                               w.rects[contact.bodyB],
                                               contact.contactPoints[i],
                                               contact.tangent)),
            !.tangentialCollisionMassesCalculated[i] = TRUE]

\* the velocity of the point at r from the centre of a body
velAtContact(vel, r, angVel) ==
    add(vel, Vector2(Mul(-r.y, angVel), Mul(r.x, angVel)))

\* calculateImpulse from relativeVelDirection on, restitution = 0.0
impulseAlong(direction, relativeVelDirection, collisionMass, allowNegative) ==
    IF relativeVelDirection < 0 /\ ~ allowNegative THEN Vector2(0, 0)
    ELSE multiply(direction,
                  Mul(Mul(-(Num(1) + 0), relativeVelDirection), collisionMass))

\* calculateImpulse(contact, contactPointIndex, velA, velB, angVelA, angVelB,
\*                  collisionMass, direction, allowNegative)
calculateImpulse(w, contact, i, velA, velB, angVelA, angVelB, collisionMass, direction, allowNegative) ==
    LET contactPoint == contact.contactPoints[i]
        rA == subtract(contactPoint, w.rects[contact.bodyA].position)
        rB == subtract(contactPoint, w.rects[contact.bodyB].position)
    IN  impulseAlong(direction,
                     dot(subtract(velAtContact(velA, rA, angVelA),
                                  velAtContact(velB, rB, angVelB)),
                         direction),
                     collisionMass, allowNegative)

\* where the Map holds the entry that getContactCache returns
cacheIndex(w, idA, idB) == MapIndex(w.contactCache, ContactCache(idA, idB).key)

getContactCache(w, idA, idB) == w.contactCache[cacheIndex(w, idA, idB)]

\* cross(r, impulse) * invInertia for a body and the impulse at contactPoint
spin(contactPoint, impulse, body) ==
    TimesInvInertia(cross(subtract(contactPoint, body.position), impulse), body)

\* the block if (applyToReal) of applyImpulseToVelocities
impulseToReal(w, a, b, contactPoint, impulse, applyToReal) ==
    IF ~ applyToReal THEN w
    ELSE [w EXCEPT
            !.rects[a] =
                IF @.isStatic THEN @
                ELSE [@ EXCEPT
                        !.velocity = add(@, multiply(impulse, w.rects[a].invMass)),
                        !.angularVelocity = @ + spin(contactPoint, impulse, w.rects[a])],
            !.rects[b] =
                IF @.isStatic THEN @
                ELSE [@ EXCEPT
                        !.velocity = subtract(@, multiply(impulse, w.rects[b].invMass)),
                        !.angularVelocity = @ - spin(contactPoint, impulse, w.rects[b])]]

\* the block if (applyToDelta)
impulseToDelta(w, a, b, contactPoint, impulse, applyToDelta) ==
    IF ~ applyToDelta THEN w
    ELSE [w EXCEPT
            !.rects[a] =
                IF @.isStatic THEN @
                ELSE [@ EXCEPT
                        !.deltaVelocity = add(@, multiply(impulse, w.rects[a].invMass)),
                        !.deltaAngularVelocity =
                            @ + spin(contactPoint, impulse, w.rects[a])],
            !.rects[b] =
                IF @.isStatic THEN @
                ELSE [@ EXCEPT
                        !.deltaVelocity =
                            subtract(@, multiply(impulse, w.rects[b].invMass)),
                        !.deltaAngularVelocity =
                            @ - spin(contactPoint, impulse, w.rects[b])]]

\* the block if (applyToResting): the two halves on the entry cache
restingOfA(cache, bodyA, contactPoint, impulse) ==
    IF bodyA.isStatic THEN cache
    ELSE [cache EXCEPT
            !.restingVelocityA = add(@, multiply(impulse, bodyA.invMass)),
            !.restingAngularVelocityA = @ + spin(contactPoint, impulse, bodyA)]

restingOfB(cache, bodyB, contactPoint, impulse) ==
    IF bodyB.isStatic THEN cache
    ELSE [cache EXCEPT
            !.restingVelocityB = subtract(@, multiply(impulse, bodyB.invMass)),
            !.restingAngularVelocityB = @ - spin(contactPoint, impulse, bodyB)]

impulseToResting(w, a, b, contactPoint, impulse, applyToResting) ==
    IF ~ applyToResting THEN w
    ELSE [w EXCEPT
            !.contactCache[cacheIndex(w, a, b)] =
                restingOfB(restingOfA(@, w.rects[a], contactPoint, impulse),
                           w.rects[b], contactPoint, impulse)]

applyImpulseToVelocities(w, contact, i, impulse, applyToReal, applyToDelta, applyToResting) ==
    impulseToResting(
        impulseToDelta(
            impulseToReal(w, contact.bodyA, contact.bodyB, contact.contactPoints[i],
                          impulse, applyToReal),
            contact.bodyA, contact.bodyB, contact.contactPoints[i],
            impulse, applyToDelta),
        contact.bodyA, contact.bodyB, contact.contactPoints[i],
        impulse, applyToResting)

\* Faulty variant, for C21: the friction impulse is applied in full
totalImpulseUnclamped(bodyA, bodyB, impulse, frictionImpulse, normalForce) ==
    add(impulse, frictionImpulse)

\* the clamp of the friction impulse that the three solver passes share:
\* totalImpulse, given the pass's bound on the normal force
totalImpulse(bodyA, bodyB, impulse, frictionImpulse, normalForce) ==
    LET combinedStaticFriction == Min(bodyA.staticFriction, bodyB.staticFriction)
        combinedDynamicFriction == Min(bodyA.dynamicFriction, bodyB.dynamicFriction)
        maxStaticFriction == Mul(normalForce, combinedStaticFriction)
        dynamicFriction == Mul(normalForce, combinedDynamicFriction)
        frictionDirection == normalize(frictionImpulse)
    IN  IF length(frictionImpulse) <= maxStaticFriction
        THEN add(impulse, frictionImpulse)
        ELSE add(impulse, multiply(frictionDirection, dynamicFriction))

\* the body of the loop of update that precomputes the collision masses
massPoint(w, c, i) ==
    [w EXCEPT !.contacts[c] = calculateCollisionMass(w, @, i)]

\* Faulty variant, for C14: no penetration is ever corrected
adjustedToNothing(lessSlop) == Mul(lessSlop, 0)

\* Math.max(0, penetration) - 2, times 0.0 if negative
adjusted(lessSlop) == IF lessSlop < 0 THEN Mul(lessSlop, 0) ELSE lessSlop

\* separateObjects on bodyA, given its new position
placedA(w, a, contactPoint, displacement, position) ==
    [w EXCEPT !.rects[a].position = position,
              !.rects[a].angle =
                  @ - TimesInvInertia(cross(subtract(contactPoint, position),
                                            displacement),
                                      w.rects[a])]

\* separateObjects on bodyB, given its new position
placedB(w, b, contactPoint, displacement, position) ==
    [w EXCEPT !.rects[b].position = position,
              !.rects[b].angle =
                  @ + TimesInvInertia(cross(subtract(contactPoint, position),
                                            displacement),
                                      w.rects[b])]

separatedA(w, a, contactPoint, displacement) ==
    IF w.rects[a].isStatic THEN w
    ELSE placedA(w, a, contactPoint, displacement,
                 subtract(w.rects[a].position,
                          multiply(displacement, w.rects[a].invMass)))

separatedB(w, b, contactPoint, displacement) ==
    IF w.rects[b].isStatic THEN w
    ELSE placedB(w, b, contactPoint, displacement,
                 add(w.rects[b].position,
                     multiply(displacement, w.rects[b].invMass)))

\* the body of the loop of separateObjects, given the displacement
displaced(w, contact, i, displacement) ==
    separatedB(separatedA(w, contact.bodyA, contact.contactPoints[i], displacement),
               contact.bodyB, contact.contactPoints[i], displacement)

\* Faulty variant, for C22: the separation has no slop
separatePointNoSlop(w, c, i) ==
    displaced(w, w.contacts[c], i,
              multiply(w.contacts[c].normal,
                       Mul(Mul(Max(0, w.contacts[c].penetrations[i]),
                               w.contacts[c].collisionMasses[i]),
                           300)))

\* the body of the loop of separateObjects
separatePoint(w, c, i) ==
    displaced(w, w.contacts[c], i,
              multiply(w.contacts[c].normal,
                       Mul(Mul(adjusted(Max(0, w.contacts[c].penetrations[i]) - Num(2)),
                               w.contacts[c].collisionMasses[i]),
                           300)))

\* Faulty variant, for C20: the resting pass applies its impulse to the delta
\* accumulators too
restingImpulsesOnDelta(w, c, i, impulse, frictionImpulse) ==
    applyImpulseToVelocities(
        [w EXCEPT !.contacts[c].normalForceMagnitudes[i] = length(impulse)],
        w.contacts[c], i,
        totalImpulse(w.rects[w.contacts[c].bodyA], w.rects[w.contacts[c].bodyB],
                     impulse, frictionImpulse, length(impulse)),
        TRUE, TRUE, FALSE)

\* the body of the loop of applyRestingForces, given the two impulses
restingImpulses(w, c, i, impulse, frictionImpulse) ==
    applyImpulseToVelocities(
        [w EXCEPT !.contacts[c].normalForceMagnitudes[i] = length(impulse)],
        w.contacts[c], i,
        totalImpulse(w.rects[w.contacts[c].bodyA], w.rects[w.contacts[c].bodyB],
                     impulse, frictionImpulse, length(impulse)),
        TRUE, FALSE, FALSE)

\* Faulty variant, for C17: the resting pass keeps the normal impulse of a
\* separating point
restingFromUnrejected(w, c, i, cache) ==
    LET contact == w.contacts[c]
        bodyA == w.rects[contact.bodyA]
        bodyB == w.rects[contact.bodyB]
        combinedVelA == subtract(bodyA.velocity, cache.restingVelocityA)
        combinedVelB == subtract(bodyB.velocity, cache.restingVelocityB)
        combinedAngVelA == bodyA.angularVelocity - cache.restingAngularVelocityA
        combinedAngVelB == bodyB.angularVelocity - cache.restingAngularVelocityB
    IN  restingImpulses(w, c, i,
            calculateImpulse(w, contact, i, combinedVelA, combinedVelB,
                             combinedAngVelA, combinedAngVelB,
                             contact.collisionMasses[i], contact.normal, TRUE),
            calculateImpulse(w, contact, i, combinedVelA, combinedVelB,
                             combinedAngVelA, combinedAngVelB,
                             contact.tangentialCollisionMasses[i],
                             contact.tangent, TRUE))

\* the body of the loop of applyRestingForces, given the pair's cache entry
restingFrom(w, c, i, cache) ==
    LET contact == w.contacts[c]
        bodyA == w.rects[contact.bodyA]
        bodyB == w.rects[contact.bodyB]
        combinedVelA == subtract(bodyA.velocity, cache.restingVelocityA)
        combinedVelB == subtract(bodyB.velocity, cache.restingVelocityB)
        combinedAngVelA == bodyA.angularVelocity - cache.restingAngularVelocityA
        combinedAngVelB == bodyB.angularVelocity - cache.restingAngularVelocityB
    IN  restingImpulses(w, c, i,
            calculateImpulse(w, contact, i, combinedVelA, combinedVelB,
                             combinedAngVelA, combinedAngVelB,
                             contact.collisionMasses[i], contact.normal, FALSE),
            calculateImpulse(w, contact, i, combinedVelA, combinedVelB,
                             combinedAngVelA, combinedAngVelB,
                             contact.tangentialCollisionMasses[i],
                             contact.tangent, TRUE))

\* the body of the loop of applyRestingForces
restingPoint(w, c, i) ==
    restingFrom(w, c, i,
                getContactCache(w, w.contacts[c].bodyA, w.contacts[c].bodyB))

\* totalImpulse of measureAndCorrectError and of applyNormalCollision, given
\* the two impulses: the friction is bound by the normal force stored by
\* applyRestingForces plus the length of this pass's normal impulse
correctingImpulse(w, c, i, impulse, frictionImpulse) ==
    totalImpulse(w.rects[w.contacts[c].bodyA], w.rects[w.contacts[c].bodyB],
                 impulse, frictionImpulse,
                 w.contacts[c].normalForceMagnitudes[i] + length(impulse))

\* Faulty variant, for C18: the friction of the error-correction pass reads
\* the delta angular velocity of both bodies
errorImpulseOfDeltas(w, c, i) ==
    LET contact == w.contacts[c]
        bodyA == w.rects[contact.bodyA]
        bodyB == w.rects[contact.bodyB]
    IN  correctingImpulse(w, c, i,
            calculateImpulse(w, contact, i, bodyA.velocity, bodyB.velocity,
                             bodyA.angularVelocity, bodyB.angularVelocity,
                             contact.collisionMasses[i], contact.normal, TRUE),
            calculateImpulse(w, contact, i, bodyA.velocity, bodyB.velocity,
                             bodyA.deltaAngularVelocity, bodyB.deltaAngularVelocity,
                             contact.tangentialCollisionMasses[i],
                             contact.tangent, TRUE))

\* the impulse that the loop body of measureAndCorrectError applies
errorImpulse(w, c, i) ==
    LET contact == w.contacts[c]
        bodyA == w.rects[contact.bodyA]
        bodyB == w.rects[contact.bodyB]
    IN  correctingImpulse(w, c, i,
            calculateImpulse(w, contact, i, bodyA.velocity, bodyB.velocity,
                             bodyA.angularVelocity, bodyB.angularVelocity,
                             contact.collisionMasses[i], contact.normal, TRUE),
            calculateImpulse(w, contact, i, bodyA.velocity, bodyB.velocity,
                             bodyA.angularVelocity, bodyB.deltaAngularVelocity,
                             contact.tangentialCollisionMasses[i],
                             contact.tangent, TRUE))

\* Faulty variant, for C19: the error-correction pass applies its impulse to
\* the real velocities too
errorPointOnReal(w, c, i) ==
    applyImpulseToVelocities(w, w.contacts[c], i, errorImpulse(w, c, i),
                             TRUE, FALSE, TRUE)

\* the body of the loop of measureAndCorrectError
errorPoint(w, c, i) ==
    applyImpulseToVelocities(w, w.contacts[c], i, errorImpulse(w, c, i),
                             FALSE, FALSE, TRUE)

\* the impulse that the loop body of applyNormalCollision applies
normalImpulse(w, c, i) ==
    LET contact == w.contacts[c]
        bodyA == w.rects[contact.bodyA]
        bodyB == w.rects[contact.bodyB]
    IN  correctingImpulse(w, c, i,
            calculateImpulse(w, contact, i, bodyA.velocity, bodyB.velocity,
                             bodyA.angularVelocity, bodyB.angularVelocity,
                             contact.collisionMasses[i], contact.normal, FALSE),
            calculateImpulse(w, contact, i, bodyA.velocity, bodyB.velocity,
                             bodyA.angularVelocity, bodyB.angularVelocity,
                             contact.tangentialCollisionMasses[i],
                             contact.tangent, TRUE))

\* Faulty variant, for C30: the normal-collision pass also feeds the delta accumulators
normalPointOnDelta(w, c, i) ==
    applyImpulseToVelocities(w, w.contacts[c], i, normalImpulse(w, c, i),
                             TRUE, TRUE, FALSE)

\* the body of the loop of applyNormalCollision
normalPoint(w, c, i) ==
    applyImpulseToVelocities(w, w.contacts[c], i, normalImpulse(w, c, i),
                             TRUE, FALSE, FALSE)

\* Each pass is the pair of loops
\*   for (const contact of this.contacts)
\*       for (let i = 0; i < contact.contactPoints.length; i++) <body>
\* over contact c and contact point i.

RECURSIVE massLoop(_, _, _)
massLoop(w, c, i) ==
    IF c > Len(w.contacts) THEN w
    ELSE IF i > Len(w.contacts[c].contactPoints) THEN massLoop(w, c + 1, 1)
    ELSE massLoop(massPoint(w, c, i), c, i + 1)

calculateCollisionMasses(w) == massLoop(Logged(w, "calculateCollisionMass"), 1, 1)

RECURSIVE separateLoop(_, _, _)
separateLoop(w, c, i) ==
    IF c > Len(w.contacts) THEN w
    ELSE IF i > Len(w.contacts[c].contactPoints) THEN separateLoop(w, c + 1, 1)
    ELSE separateLoop(separatePoint(w, c, i), c, i + 1)

separateObjects(w) == separateLoop(Logged(w, "separateObjects"), 1, 1)

RECURSIVE restingLoop(_, _, _)
restingLoop(w, c, i) ==
    IF c > Len(w.contacts) THEN w
    ELSE IF i > Len(w.contacts[c].contactPoints) THEN restingLoop(w, c + 1, 1)
    ELSE restingLoop(restingPoint(w, c, i), c, i + 1)

applyRestingForces(w) == restingLoop(Logged(w, "applyRestingForces"), 1, 1)

RECURSIVE errorLoop(_, _, _)
errorLoop(w, c, i) ==
    IF c > Len(w.contacts) THEN w
    ELSE IF i > Len(w.contacts[c].contactPoints) THEN errorLoop(w, c + 1, 1)
    ELSE errorLoop(errorPoint(w, c, i), c, i + 1)

measureAndCorrectError(w) == errorLoop(Logged(w, "measureAndCorrectError"), 1, 1)

RECURSIVE normalLoop(_, _, _)
normalLoop(w, c, i) ==
    IF c > Len(w.contacts) THEN w
    ELSE IF i > Len(w.contacts[c].contactPoints) THEN normalLoop(w, c + 1, 1)
    ELSE normalLoop(normalPoint(w, c, i), c, i + 1)

applyNormalCollision(w) == normalLoop(Logged(w, "applyNormalCollision"), 1, 1)

\* Faulty variant, for C25: the grabbed body is moved but not slowed down
updateMouseInteractionUndamped(w) ==
    Logged(IF w.grabbedBody # null /\ w.isMouseDown
           THEN [w EXCEPT
                   !.rects[w.grabbedBody].position =
                       add(@, multiply(subtract(subtract(w.mousePosition, w.grabOffset),
                                                @),
                                       Scale \div 10))]
           ELSE w,
           "updateMouseInteraction")

updateMouseInteraction(w) ==
    Logged(IF w.grabbedBody # null /\ w.isMouseDown
           THEN LET body == w.rects[w.grabbedBody]
                    targetPosition == subtract(w.mousePosition, w.grabOffset)
                    positionDelta == subtract(targetPosition, body.position)
                    newPosition == add(body.position,
                                       multiply(positionDelta, Scale \div 10))
                IN  [w EXCEPT
                       !.rects[w.grabbedBody] =
                           [@ EXCEPT !.position = newPosition,
                                     !.velocity = multiply(@, 600),
                                     !.angularVelocity = Mul(@, 600)]]
           ELSE w,
           "updateMouseInteraction")

RECURSIVE decayLoop(_, _)
decayLoop(w, c) ==
    IF c > Len(w.contacts) THEN w
    ELSE decayLoop([w EXCEPT
                      !.contactCache[cacheIndex(w, w.contacts[c].bodyA,
                                                w.contacts[c].bodyB)] =
                          [@ EXCEPT
                             !.restingVelocityA = multiply(@, Num(1)),
                             !.restingVelocityB = multiply(@, Num(1)),
                             !.restingAngularVelocityA = Mul(Mul(@, Num(1)), Num(1))]],
                   c + 1)

\* Faulty variant, for C29: the decay halves the biases of every entry of the cache
applyRestingDecayOfAll(w) ==
    Logged([w EXCEPT !.contactCache =
              [k \in 1..Len(@) |->
                 [@[k] EXCEPT !.restingVelocityA = multiply(@, Scale \div 2),
                              !.restingVelocityB = multiply(@, Scale \div 2),
                              !.restingAngularVelocityA = Mul(@, Scale \div 2)]]],
           "applyRestingDecay")

applyRestingDecay(w) == decayLoop(Logged(w, "applyRestingDecay"), 1)

\* Faulty variant, for C1: an entry is deleted one tick early
cleanupContactCacheEarly(w) ==
    Logged([w EXCEPT !.contactCache =
              SelectSeq(@, LAMBDA cache :
                  ~ (Num(w.currentTime - cache.lastUpdateTime) >= cacheTimeout))],
           "cleanupContactCache")

cleanupContactCache(w) ==
    Logged([w EXCEPT !.contactCache =
              SelectSeq(@, LAMBDA cache :
                  ~ (Num(w.currentTime - cache.lastUpdateTime) > cacheTimeout))],
           "cleanupContactCache")

\* Faulty variant, for C10: the position separation runs right after the detection
stepSeparatingFirst(w) ==
    cleanupContactCache(
    applyRestingDecay(
    updateMouseInteraction(
    applyNormalCollision(
    measureAndCorrectError(
    applyRestingForces(
    calculateCollisionMasses(
    integrateMotion(
    applyForces(
    resetDeltaVelocities(
    separateObjects(
    detectCollisions([w EXCEPT !.currentTime = @ + 1]))))))))))))

\* PhysicsEngine.update when the engine is not paused
step(w) ==
    cleanupContactCache(
    applyRestingDecay(
    updateMouseInteraction(
    applyNormalCollision(
    measureAndCorrectError(
    applyRestingForces(
    separateObjects(
    calculateCollisionMasses(
    integrateMotion(
    applyForces(
    resetDeltaVelocities(
    detectCollisions([w EXCEPT !.currentTime = @ + 1]))))))))))))

\* Faulty variant, for C4: update does not look at isPaused
updateWhilePaused(w) == step(w)

\* PhysicsEngine.update
update(w) == IF w.isPaused THEN w ELSE step(w)

RECURSIVE bodyAtLoop(_, _, _)
bodyAtLoop(w, point, i) ==
    IF i < 1 THEN null
    ELSE IF isPointInRectangle(point, getVertices(w.rects[w.bodies[i]]))
    THEN w.bodies[i]
    ELSE bodyAtLoop(w, point, i - 1)

\* Faulty variant, for C6: the search runs from the first body inserted
getBodyAtPointForward(w, point) ==
    LET hit(i) == isPointInRectangle(point, getVertices(w.rects[w.bodies[i]]))
    IN  IF \E i \in 1..Len(w.bodies) : hit(i)
        THEN w.bodies[CHOOSE i \in 1..Len(w.bodies) :
                         hit(i) /\ \A j \in 1..(i - 1) : ~ hit(j)]
        ELSE null

getBodyAtPoint(w, point) == bodyAtLoop(w, point, Len(w.bodies))

\* Faulty variant, for C3: a static body under the pointer is grabbed too
grabbingAny(w, bodyUnderMouse) ==
    IF bodyUnderMouse # null
    THEN [w EXCEPT !.grabbedBody = bodyUnderMouse,
                   !.grabOffset = subtract(w.mousePosition,
                                           w.rects[bodyUnderMouse].position)]
    ELSE w

\* handleMouseDown after getBodyAtPoint returned bodyUnderMouse
grabbing(w, bodyUnderMouse) ==
    IF bodyUnderMouse # null /\ ~ w.rects[bodyUnderMouse].isStatic
    THEN [w EXCEPT !.grabbedBody = bodyUnderMouse,
                   !.grabOffset = subtract(w.mousePosition,
                                           w.rects[bodyUnderMouse].position)]
    ELSE w

handleMouseDown(w, x, y) ==
    grabbing([w EXCEPT !.isMouseDown = TRUE, !.mousePosition = Vector2(x, y)],
             getBodyAtPoint(w, Vector2(x, y)))

handleMouseMove(w, x, y) == [w EXCEPT !.mousePosition = Vector2(x, y)]

handleMouseUp(w) ==
    [w EXCEPT !.isMouseDown = FALSE,
              !.grabbedBody = null,
              !.grabOffset = Vector2(0, 0)]

\* Faulty variant, for C9: the contact cache survives the reset
resetKeepingCache(w) ==
    initializeWorld([w EXCEPT !.bodies = <<>>,
                              !.contacts = <<>>,
                              !.currentTime = 0])

reset(w) ==
    initializeWorld([w EXCEPT !.bodies = <<>>,
                              !.contacts = <<>>,
                              !.contactCache = <<>>,
                              !.currentTime = 0])

togglePause(w) == [w EXCEPT !.isPaused = ~ @]

\* a call of the host on the engine
Call(name, x, y) == [name |-> name, x |-> x, y |-> y]

---------------------------------------------------------------------------
(* The page: index.html constructs one engine, physics, calls update once   *)
(* per animation frame and delivers the pointer events of the canvas and    *)
(* the clicks of the three buttons between frames.                          *)

\* the ticks explored
MaxTime == 66

\* the host delivers events between the frames InputPeriod apart, at most
\* MaxEvents of them, and adds boxes up to MaxBodies bodies
InputPeriod == 32
MaxEvents == 3
MaxBodies == 3

\* where the pointer goes: a point of the initial box above its centre, and
\* a point of the ground below the box
GrabPoint == Vector2(Num(200), Num(190))
GroundPoint == Vector2(Num(200), Num(760))
PointerPositions == {GrabPoint, GroundPoint}

VARIABLES
    rects,          \* the Rectangle objects in use, by id
    nextId,         \* Rectangle.nextId
    seed,           \* detRandom.seed
    bodies,         \* physics.bodies, as ids
    contacts,       \* physics.contacts
    contactCache,   \* physics.contactCache
    currentTime,    \* physics.currentTime
    isPaused,       \* physics.isPaused
    mousePosition,  \* physics.mousePosition
    grabbedBody,    \* physics.grabbedBody, an id or null
    grabOffset,     \* physics.grabOffset
    isMouseDown,    \* physics.isMouseDown
    call,           \* the last call made
    phases,         \* the phases the last call ran, in order
    events          \* the number of events delivered

vars == << rects, nextId, seed, bodies, contacts, contactCache, currentTime,
           isPaused, mousePosition, grabbedBody, grabOffset, isMouseDown,
           call, phases, events >>

\* the world of the engine physics of the page
World ==
    [ rects |-> rects, nextId |-> nextId, seed |-> seed,
      log |-> <<>>,
      bodies |-> bodies, contacts |-> contacts, contactCache |-> contactCache,
      currentTime |-> currentTime, isPaused |-> isPaused,
      mousePosition |-> mousePosition, grabbedBody |-> grabbedBody,
      grabOffset |-> grabOffset, isMouseDown |-> isMouseDown ]

\* the ids the engine refers to
Referenced(w) ==
    {w.bodies[k] : k \in 1..Len(w.bodies)} \cup ({w.grabbedBody} \ {null})

\* the state after the call c that left the engine in world w: the Rectangle
\* objects the engine no longer refers to are dropped
Becomes(w, c) ==
    /\ rects' = [id \in Referenced(w) |-> w.rects[id]]
    /\ nextId' = w.nextId
    /\ seed' = w.seed
    /\ bodies' = w.bodies
    /\ contacts' = w.contacts
    /\ contactCache' = w.contactCache
    /\ currentTime' = w.currentTime
    /\ isPaused' = w.isPaused
    /\ mousePosition' = w.mousePosition
    /\ grabbedBody' = w.grabbedBody
    /\ grabOffset' = w.grabOffset
    /\ isMouseDown' = w.isMouseDown
    /\ call' = c
    /\ phases' = w.log

\* the engine is in world w
Constructed(w) ==
    /\ rects = w.rects
    /\ nextId = w.nextId
    /\ seed = w.seed
    /\ bodies = w.bodies
    /\ contacts = w.contacts
    /\ contactCache = w.contactCache
    /\ currentTime = w.currentTime
    /\ isPaused = w.isPaused
    /\ mousePosition = w.mousePosition
    /\ grabbedBody = w.grabbedBody
    /\ grabOffset = w.grabOffset
    /\ isMouseDown = w.isMouseDown

\* the state the page's script starts from: no Rectangle yet, the generator
\* at its initial seed
Fresh == [rects |-> <<>>, nextId |-> 0, seed |-> InitialSeed]

\* the page's script has run: physics is constructed
Init ==
    /\ Constructed(PhysicsEngine(Fresh))
    /\ call = Call("new PhysicsEngine", 0, 0)
    /\ phases = <<>>
    /\ events = 0

\* an event may be delivered now
Deliverable == currentTime % InputPeriod = 0 /\ events < MaxEvents

\* gameLoop: one animation frame
Update ==
    /\ isPaused \/ currentTime < MaxTime
    /\ Becomes(update(World), Call("update", 0, 0))
    /\ UNCHANGED events

HandleMouseDown ==
    /\ Deliverable
    /\ \E p \in PointerPositions :
          Becomes(handleMouseDown(World, p.x, p.y), Call("handleMouseDown", p.x, p.y))
    /\ events' = events + 1

HandleMouseMove ==
    /\ Deliverable
    /\ \E p \in PointerPositions :
          Becomes(handleMouseMove(World, p.x, p.y), Call("handleMouseMove", p.x, p.y))
    /\ events' = events + 1

HandleMouseUp ==
    /\ Deliverable
    /\ Becomes(handleMouseUp(World), Call("handleMouseUp", 0, 0))
    /\ events' = events + 1

AddRandomBox ==
    /\ Deliverable
    /\ Len(bodies) < MaxBodies
    /\ Becomes(addRandomBox(World), Call("addRandomBox", 0, 0))
    /\ events' = events + 1

Reset ==
    /\ Deliverable
    /\ Becomes(reset(World), Call("reset", 0, 0))
    /\ events' = events + 1

TogglePause ==
    /\ Deliverable
    /\ Becomes(togglePause(World), Call("togglePause", 0, 0))
    /\ events' = events + 1

Next ==
    \/ Update
    \/ HandleMouseDown
    \/ HandleMouseMove
    \/ HandleMouseUp
    \/ AddRandomBox
    \/ Reset
    \/ TogglePause

Spec == Init /\ [][Next]_vars

---------------------------------------------------------------------------
(* Worlds set up by hand.  The fields of a Rectangle and the list           *)
(* physics.bodies are public: a host can place bodies before the first      *)
(* tick, as initializeWorld itself does with box.angle = 0.1.               *)

\* the ticks explored on each world set up by hand, pass by pass
PassTicks == 6

\* the ticks explored on the box at rest
RestingTicks == 200

\* the box of initializeWorld moved to the height y, with its angle and its
\* downward speed
placedBox(w, y, angle, speed) ==
    [w EXCEPT !.rects[newest(w)] =
                  [@ EXCEPT !.position = Vector2(Num(200), y),
                            !.angle = angle,
                            !.velocity = Vector2(0, speed)]]

\* a third body: a static slab that lies in the ground under the box, a
\* heavier box that leans on the first one, or a thin post that stands in
\* the ground across the box
withExtra(w, extra) ==
    CASE extra = "slab" ->
           PushRectangle(w, Num(230), Num(745), Num(100), Num(20), Num(1), TRUE)
      [] extra = "box" ->
           PushRectangle(w, Num(220), Num(725), Num(40), Num(40), Num(2), FALSE)
      [] extra = "post" ->
           PushRectangle(w, Num(200), Num(735), Num(10), Num(60), Num(1), FALSE)
      [] OTHER -> w

Scene(y, angle, speed, extra) ==
    withExtra(placedBox(PhysicsEngine(Fresh), y, angle, speed), extra)

\* the engine is in world w and has run no tick
SetUp(w) ==
    /\ Constructed(w)
    /\ call = Call("scene", 0, 0)
    /\ phases = <<>>
    /\ events = 0

\* The box of mass 1 and size 50 x 30 at rest on the ground, angle 0, and
\* update called once per frame.
InitResting == SetUp(Scene(Num(735), 0, 0, "none"))

Tick ==
    /\ currentTime < RestingTicks
    /\ Becomes(update(World), Call("update", 0, 0))
    /\ UNCHANGED events

SpecResting == InitResting /\ [][Tick]_vars

\* The box on the ground and thrown up, at 0.2 per tick (it is back on the
\* ground within the half second the cache keeps an entry) or at 0.5 per tick
\* (it comes back after the entry has gone), alone or with a third body; and
\* update called once per frame.
InitGaps ==
    \E speed \in {-200, -500}, extra \in {"none", "slab", "box"} :
        SetUp(Scene(Num(735), 0, speed, extra))

SpecGaps == InitGaps /\ [][Tick]_vars

\* The box above the ground (y = 700), on it (y = 735: its lower side on the
\* ground's upper side) or in it (y = 740), upright or turned by 0.3, at rest
\* or falling at 3 per tick, alone or with a third body; and update taken
\* one pass at a time: call names the pass that ran last, and each pass
\* waits for the one update runs before it.
InitPasses ==
    \E y \in {Num(700), Num(735), Num(740)}, angle \in {0, 300},
       speed \in {0, Num(3)}, extra \in {"none", "slab", "box", "post"} :
        SetUp(Scene(y, angle, speed, extra))

\* the pass named has just run
After(pass) == call.name = pass

\* the engine makes call c on itself, which leaves it in world w
Pass(w, c) == Becomes(w, Call(c, 0, 0)) /\ UNCHANGED events

DetectCollisions ==
    /\ After("scene") \/ After("cleanupContactCache")
    /\ currentTime < PassTicks
    /\ Pass(detectCollisions([World EXCEPT !.currentTime = @ + 1]),
            "detectCollisions")

ResetDeltaVelocities ==
    After("detectCollisions")
      /\ Pass(resetDeltaVelocities(World), "resetDeltaVelocities")

ApplyForces ==
    After("resetDeltaVelocities") /\ Pass(applyForces(World), "applyForces")

IntegrateMotion ==
    After("applyForces") /\ Pass(integrateMotion(World), "integrateMotion")

CalculateCollisionMasses ==
    After("integrateMotion")
      /\ Pass(calculateCollisionMasses(World), "calculateCollisionMass")

SeparateObjects ==
    After("calculateCollisionMass")
      /\ Pass(separateObjects(World), "separateObjects")

ApplyRestingForces ==
    After("separateObjects")
      /\ Pass(applyRestingForces(World), "applyRestingForces")

MeasureAndCorrectError ==
    After("applyRestingForces")
      /\ Pass(measureAndCorrectError(World), "measureAndCorrectError")

ApplyNormalCollision ==
    After("measureAndCorrectError")
      /\ Pass(applyNormalCollision(World), "applyNormalCollision")

UpdateMouseInteraction ==
    After("applyNormalCollision")
      /\ Pass(updateMouseInteraction(World), "updateMouseInteraction")

ApplyRestingDecay ==
    After("updateMouseInteraction")
      /\ Pass(applyRestingDecay(World), "applyRestingDecay")

CleanupContactCache ==
    After("applyRestingDecay")
      /\ Pass(cleanupContactCache(World), "cleanupContactCache")

NextPass ==
    \/ DetectCollisions
    \/ ResetDeltaVelocities
    \/ ApplyForces
    \/ IntegrateMotion
    \/ CalculateCollisionMasses
    \/ SeparateObjects
    \/ ApplyRestingForces
    \/ MeasureAndCorrectError
    \/ ApplyNormalCollision
    \/ UpdateMouseInteraction
    \/ ApplyRestingDecay
    \/ CleanupContactCache

SpecPasses == InitPasses /\ [][NextPass]_vars

---------------------------------------------------------------------------
(* Properties                                                               *)

\* the bodies of the engine, in the order of physics.bodies
Bodies == [k \in 1..Len(bodies) |-> rects[bodies[k]]]

\* the vertices of body k contain the point
Contains(k, point) == isPointInRectangle(point, getVertices(rects[bodies[k]]))

\* the entry of a cache, or a contact, is for the same unordered pair as e
SamePair(c, e) == {c.bodyA, c.bodyB} = {e.bodyA, e.bodyB}

\* the pair of e is among the contacts cs
Colliding(cs, e) == \E k \in 1..Len(cs) : SamePair(cs[k], e)

\* the eviction window of the cache, in ticks
EvictionWindow == 30

\* C1.  A cache entry of a pair that the step does not report colliding
\* survives the step, with its lastUpdateTime, exactly if the new tick is at
\* most EvictionWindow after lastUpdateTime: present up to and including
\* tick T + 30, absent after the step of tick T + 31.
C1_EvictionTiming ==
    [][ call'.name = "update" /\ currentTime' = currentTime + 1 =>
          \A k \in 1..Len(contactCache) :
             ~ Colliding(contacts', contactCache[k]) =>
                IF currentTime' - contactCache[k].lastUpdateTime <= EvictionWindow
                THEN \E j \in 1..Len(contactCache') :
                        /\ SamePair(contactCache'[j], contactCache[k])
                        /\ contactCache'[j].lastUpdateTime
                             = contactCache[k].lastUpdateTime
                ELSE \A j \in 1..Len(contactCache') :
                        ~ SamePair(contactCache'[j], contactCache[k]) ]_vars

\* a step has left an entry exactly EvictionWindow ticks old in the cache
C1_Witness ==
    /\ call.name = "update"
    /\ \E k \in 1..Len(contactCache) :
          /\ currentTime - contactCache[k].lastUpdateTime = EvictionWindow
          /\ ~ Colliding(contacts, contactCache[k])

\* C2.  After every unpaused step, the cache holds, for each pair the step
\* reported colliding, an entry whose lastUpdateTime is the current tick.
C2_CacheRefresh ==
    call.name = "update" /\ ~ isPaused =>
        \A k \in 1..Len(contacts) :
            \E j \in 1..Len(contactCache) :
                /\ SamePair(contactCache[j], contacts[k])
                /\ contactCache[j].lastUpdateTime = currentTime

\* a step has reported a pair colliding that has been in contact for a while:
\* two of the box's corners are inside the ground
C2_Witness ==
    /\ call.name = "update" /\ ~ isPaused
    /\ \E k \in 1..Len(contacts) : Len(contacts[k].contactPoints) = 2

\* C3.  A static body keeps the position, angle, velocity and angular
\* velocity of its creation, and is never the grabbed body.
C3_StaticInvariance ==
    \A id \in DOMAIN rects :
        rects[id].isStatic =>
            /\ rects[id].position
                 = Vector2(DivInt(Num(worldWidth), 2), Num(worldHeight) - Num(25))
            /\ rects[id].angle = 0
            /\ rects[id].velocity = Vector2(0, 0)
            /\ rects[id].angularVelocity = 0
            /\ grabbedBody # id

\* the pointer has gone down on the static ground while the ground is in
\* contact with the box
C3_Witness ==
    /\ call.name = "handleMouseDown"
    /\ \E k \in 1..Len(bodies) :
          rects[bodies[k]].isStatic /\ Contains(k, mousePosition)
    /\ \E k \in 1..Len(contacts) : rects[contacts[k].bodyA].isStatic

\* C4.  A call of update while paused changes nothing of the engine, and a
\* call while not paused advances the tick counter by exactly one.
C4_PausedStep ==
    [][ call'.name = "update" =>
          IF isPaused
          THEN UNCHANGED << rects, nextId, seed, bodies, contacts, contactCache,
                            currentTime, isPaused, mousePosition, grabbedBody,
                            grabOffset, isMouseDown >>
          ELSE currentTime' = currentTime + 1 ]_vars

\* update has been called on an engine paused in the middle of a run
C4_Witness == call.name = "update" /\ isPaused /\ currentTime > 0

\* C5.  After a pointerDown at a coordinate inside no body, no body is
\* grabbed.
C5_EmptyPointerDown ==
    (/\ call.name = "handleMouseDown"
     /\ \A k \in 1..Len(bodies) : ~ Contains(k, mousePosition))
    => grabbedBody = null

\* body k is not static and contains the point
Pickable(k, point) == ~ rects[bodies[k]].isStatic /\ Contains(k, point)

\* C6.  After a pointerDown at a coordinate inside at least one non-static
\* body, the grabbed body is the most recently inserted such body, and
\* grabOffset is the pointer position minus that body's position.
C6_PickCorrectness ==
    (/\ call.name = "handleMouseDown"
     /\ \E k \in 1..Len(bodies) : Pickable(k, mousePosition))
    => \E k \in 1..Len(bodies) :
          /\ Pickable(k, mousePosition)
          /\ \A j \in (k + 1)..Len(bodies) : ~ Pickable(j, mousePosition)
          /\ grabbedBody = bodies[k]
          /\ grabOffset = subtract(mousePosition, rects[bodies[k]].position)

\* the pointer has gone down on a point that is inside the box and also
\* inside the static ground
C6_Witness ==
    /\ call.name = "handleMouseDown"
    /\ \E k \in 1..Len(bodies) : Pickable(k, mousePosition)
    /\ \E k \in 1..Len(bodies) :
          rects[bodies[k]].isStatic /\ Contains(k, mousePosition)

\* C7.  The key of a pair does not depend on the order of the two bodies,
\* every cache entry is filed under the key of its pair, and no unordered
\* pair has two entries.
C7_CacheKeySymmetry ==
    /\ \A a, b \in DOMAIN rects : generateKey(a, b) = generateKey(b, a)
    /\ \A k \in 1..Len(contactCache) :
          contactCache[k].key
            = generateKey(contactCache[k].bodyB, contactCache[k].bodyA)
    /\ \A j, k \in 1..Len(contactCache) :
          SamePair(contactCache[j], contactCache[k]) => j = k

\* the cache holds the entry of a pair, and the contact of the pair finds it
C7_Witness ==
    \E k \in 1..Len(contacts) :
        \E j \in 1..Len(contactCache) :
            contactCache[j].key = generateKey(contacts[k].bodyB, contacts[k].bodyA)

\* C8.  A world that has just been constructed or reset has run the same
\* calls as a simulation just constructed, and so has bodies in the same
\* state: positions, velocities, ids and colours.
C8_Determinism ==
    call.name \in {"new PhysicsEngine", "reset"} =>
        LET first == PhysicsEngine(Fresh)
        IN  Bodies = [k \in 1..Len(first.bodies) |-> first.rects[first.bodies[k]]]

\* two bodies equal but for their ids and colours
SameBody(r1, r2) ==
    [r1 EXCEPT !.id = 0, !.color = <<>>] = [r2 EXCEPT !.id = 0, !.color = <<>>]

\* C9.  After reset the tick counter is 0, the contact list and the cache
\* are empty, and the bodies are the static ground and the initial box, both
\* new: none is a body that existed before.
C9_ResetDiscards ==
    [][ call'.name = "reset" =>
          /\ currentTime' = 0
          /\ contacts' = <<>>
          /\ contactCache' = <<>>
          /\ Len(bodies') = 2
          /\ \A k \in 1..2 :
                /\ SameBody(rects'[bodies'[k]],
                            PhysicsEngine(Fresh).rects[PhysicsEngine(Fresh).bodies[k]])
                /\ bodies'[k] \notin DOMAIN rects ]_vars

\* the world has been reset while the box was grabbed and had been dragged
\* down to the ground
C9_Witness ==
    /\ call.name = "reset"
    /\ grabbedBody # null
    /\ rects[grabbedBody].position.y > Num(700)

\* the phases the claim names, in the order it states and in the order of update
StatedOrder ==
    << "detectCollisions", "separateObjects", "applyForces", "integrateMotion",
       "calculateCollisionMass", "applyRestingForces", "measureAndCorrectError",
       "applyNormalCollision", "updateMouseInteraction", "cleanupContactCache" >>

UpdateOrder ==
    << "detectCollisions", "applyForces", "integrateMotion",
       "calculateCollisionMass", "separateObjects", "applyRestingForces",
       "measureAndCorrectError", "applyNormalCollision", "updateMouseInteraction",
       "cleanupContactCache" >>

\* the phases of order that the last call ran are exactly those, in that order
Ran(order) ==
    SelectSeq(phases, LAMBDA p : \E k \in 1..Len(order) : order[k] = p) = order

\* C10 as stated.  An unpaused step runs detection, separation, the
\* integrator, the collision-mass precompute, the solver passes, the pointer
\* update and the cache eviction, in this order.
C10_PipelineOrderStated == call.name = "update" /\ ~ isPaused => Ran(StatedOrder)

\* C10.  An unpaused step runs detection, the integrator (gravity, then
\* motion), the collision-mass precompute, the position separation, the
\* solver passes (resting, error correction, normal collision), the pointer
\* update and the cache eviction, in this order: the separation runs after
\* the integrator and after the collision-mass precompute.
C10_PipelineOrder == call.name = "update" /\ ~ isPaused => Ran(UpdateOrder)

\* an unpaused step has run all its phases on a contact
C10_Witness == call.name = "update" /\ ~ isPaused /\ Len(contacts) > 0

\* the pair of bodies is in the contact list, the first as bodyA
Reported(idA, idB) ==
    \E k \in 1..Len(contacts) : contacts[k].bodyA = idA /\ contacts[k].bodyB = idB

\* the overlap of the projections of two rectangles on an axis
Overlap(verticesA, verticesB, axis) ==
    Min(projectVertices(verticesA, axis).max, projectVertices(verticesB, axis).max)
      - Max(projectVertices(verticesA, axis).min, projectVertices(verticesB, axis).min)

\* the eight axes tested for a pair: the edge normals of the first rectangle,
\* then those of the second
TestedAxes(verticesA, verticesB) ==
    getRectangleAxes(verticesA) \o getRectangleAxes(verticesB)

\* the overlaps of a pair of bodies on its eight axes
Overlaps(a, b) ==
    [ k \in 1..8 |->
        Overlap(getVertices(a), getVertices(b),
                TestedAxes(getVertices(a), getVertices(b))[k]) ]

\* C11.  Right after detection, a pair of bodies (the first earlier in the
\* body list) is in the contact list if and only if the overlap of their
\* projections is at least 0 on every one of the eight tested axes: the pair
\* is left out exactly when some overlap is below 0, and an overlap of
\* exactly 0 (touching) does not separate.
C11_SatSeparation ==
    After("detectCollisions") =>
        \A i, j \in 1..Len(bodies) :
            i < j =>
                ( Reported(bodies[i], bodies[j])
                    <=> \A k \in 1..8 : Overlaps(Bodies[i], Bodies[j])[k] >= 0 )

\* detection has reported a pair that only touches (overlap 0 on an axis,
\* none below 0) and has left out a pair with an overlap below 0
C11_Witness ==
    /\ After("detectCollisions")
    /\ \E i, j \in 1..Len(bodies) :
         /\ i < j
         /\ Reported(bodies[i], bodies[j])
         /\ \E k \in 1..8 : Overlaps(Bodies[i], Bodies[j])[k] = 0
    /\ \E i, j \in 1..Len(bodies) :
         /\ i < j
         /\ ~ Reported(bodies[i], bodies[j])
         /\ \E k \in 1..8 : Overlaps(Bodies[i], Bodies[j])[k] < 0

\* the place of a body in the body list
IndexOf(id) == CHOOSE k \in 1..Len(bodies) : bodies[k] = id

\* the vector from the centre of the vertices of a contact's bodyA to that of
\* its bodyB
CenterDir(contact) ==
    subtract(getCenter(getVertices(rects[contact.bodyB])),
             getCenter(getVertices(rects[contact.bodyA])))

\* C12.  Right after detection, every contact has as bodyA the body that
\* comes earlier in the body list, and its normal points from bodyA towards
\* bodyB: the dot product of the normal with (centroid of B's vertices minus
\* centroid of A's vertices) is at least 0.
C12_NormalOrientation ==
    After("detectCollisions") =>
        \A k \in 1..Len(contacts) :
            /\ IndexOf(contacts[k].bodyA) < IndexOf(contacts[k].bodyB)
            /\ dot(contacts[k].normal, CenterDir(contacts[k])) >= 0

\* detection has reported the box on the static ground, with a normal that
\* points up from the ground to the box, and a second contact
C12_Witness ==
    /\ After("detectCollisions")
    /\ Len(contacts) > 1
    /\ \E k \in 1..Len(contacts) :
         /\ rects[contacts[k].bodyA].isStatic
         /\ contacts[k].normal.y < 0
         /\ dot(contacts[k].normal, CenterDir(contacts[k])) > 0

\* the vertices of body a that lie inside body b, in vertex order
Inside(a, b) ==
    SelectSeq(getVertices(a), LAMBDA v : isPointInRectangle(v, getVertices(b)))

\* the sequences a contact keeps per contact point have the length n
PerPoint(contact, n) ==
    /\ Len(contact.contactPoints) = n
    /\ Len(contact.penetrations) = n
    /\ Len(contact.collisionMasses) = n
    /\ Len(contact.tangentialCollisionMasses) = n
    /\ Len(contact.collisionMassesCalculated) = n
    /\ Len(contact.tangentialCollisionMassesCalculated) = n
    /\ Len(contact.normalForceMagnitudes) = n

\* the contact points of a contact are the vertices of bodyA inside bodyB
\* followed by those of bodyB inside bodyA, or, if there are none, the one
\* point halfway between the positions of the two bodies
PointsAsFound(contact) ==
    LET a == rects[contact.bodyA]
        b == rects[contact.bodyB]
    IN  contact.contactPoints =
            IF Len(Inside(a, b) \o Inside(b, a)) = 0
            THEN << multiply(add(a.position, b.position), Scale \div 2) >>
            ELSE Inside(a, b) \o Inside(b, a)

\* C13.  Every contact has at least one contact point, and its per-point
\* sequences (contact points, penetrations, collision masses, tangential
\* collision masses, stored normal force magnitudes, the calculated flags)
\* all have that length, through the whole tick; right after detection the
\* contact points are bodyA's vertices inside bodyB followed by bodyB's
\* vertices inside bodyA, or, when neither body has a vertex inside the
\* other, exactly one point at the midpoint of the two body positions.
C13_ContactPoints ==
    \A k \in 1..Len(contacts) :
        /\ Len(contacts[k].contactPoints) >= 1
        /\ PerPoint(contacts[k], Len(contacts[k].contactPoints))
        /\ After("detectCollisions") => PointsAsFound(contacts[k])

\* detection has reported a pair with no vertex inside the other body (one
\* contact point, made up) and a pair with two vertices inside the other
\* body
C13_Witness ==
    /\ After("detectCollisions")
    /\ \E k \in 1..Len(contacts) :
         /\ Len(Inside(rects[contacts[k].bodyA], rects[contacts[k].bodyB])) = 0
         /\ Len(Inside(rects[contacts[k].bodyB], rects[contacts[k].bodyA])) = 0
         /\ Len(contacts[k].contactPoints) = 1
    /\ \E k \in 1..Len(contacts) :
         Len(Inside(rects[contacts[k].bodyA], rects[contacts[k].bodyB]))
           + Len(Inside(rects[contacts[k].bodyB], rects[contacts[k].bodyA])) = 2

\* the length of the displacement of body k of the body list in this step
Displacement(k) ==
    length(subtract(rects'[bodies[k]].position, rects[bodies[k]].position))

\* in this tick, if it is a tick after the first n, every body moves by less
\* than 0.01 and the centre of the box is above the upper side of the ground
SettledAfter(n) ==
    currentTime' > n =>
        \A k \in 1..Len(bodies) :
            /\ Displacement(k) < Scale \div 100
            /\ ~ Bodies[k].isStatic =>
                   rects'[bodies[k]].position.y < Num(worldHeight) - Num(50)

StaticPair(contact) == rects[contact.bodyA].isStatic /\ rects[contact.bodyB].isStatic

\* the displacement separateObjects derives for point i of contact c
SeparationOf(w, c, i) ==
    multiply(w.contacts[c].normal,
             Mul(Mul(adjusted(Max(0, w.contacts[c].penetrations[i]) - Num(2)),
                     w.contacts[c].collisionMasses[i]),
                 300))

\* point i of contact c of world w has no collision mass, and what the
\* passes derive for it is zero: the displacement of the separation, the
\* stored normal force of the resting pass, the impulses of the
\* error-correction pass and of the normal-collision pass
NothingDerived(w, c, i) ==
    /\ w.contacts[c].collisionMasses[i] = 0
    /\ w.contacts[c].tangentialCollisionMasses[i] = 0
    /\ w.contacts[c].normalForceMagnitudes[i] = 0
    /\ SeparationOf(w, c, i) = Vector2(0, 0)
    /\ errorImpulse(w, c, i) = Vector2(0, 0)
    /\ normalImpulse(w, c, i) = Vector2(0, 0)

\* the cached biases of the pair of a contact are all zero
NoBias(cache) ==
    /\ cache.restingVelocityA = Vector2(0, 0)
    /\ cache.restingVelocityB = Vector2(0, 0)
    /\ cache.restingAngularVelocityA = 0
    /\ cache.restingAngularVelocityB = 0

\* C15.  A contact between two static bodies does nothing: after every pass
\* of a tick its normal and tangential collision masses are 0, the
\* separation displacement, the stored normal force and the impulses derived
\* for each of its points are zero, the cached biases of the pair are zero,
\* and the pass has changed neither body (pose, velocities).
C15_StaticPairNoOp ==
    [][ \A c \in 1..Len(contacts') :
            StaticPair(contacts'[c]) =>
                /\ \A i \in 1..Len(contacts'[c].contactPoints) :
                       NothingDerived(World', c, i)
                /\ NoBias(getContactCache(World', contacts'[c].bodyA,
                                          contacts'[c].bodyB))
                /\ rects'[contacts'[c].bodyA] = rects[contacts'[c].bodyA]
                /\ rects'[contacts'[c].bodyB] = rects[contacts'[c].bodyB] ]_vars

\* the solver passes have run on a contact between two static bodies that
\* penetrate by more than the slop of the separation
C15_Witness ==
    /\ After("applyNormalCollision")
    /\ \E c \in 1..Len(contacts) :
         /\ StaticPair(contacts[c])
         /\ \E i \in 1..Len(contacts[c].contactPoints) :
              contacts[c].penetrations[i] > Num(2)

\* the ids in the body list increase with the index, every Rectangle in use
\* has an id below Rectangle.nextId, and no two different unordered pairs of
\* the ids given out so far have the same cache key
IdsInOrder ==
    /\ \A k, l \in 1..Len(bodies) : k < l => Bodies[k].id < Bodies[l].id
    /\ \A id \in DOMAIN rects : rects[id].id = id /\ id < nextId
    /\ \A a, b, c, d \in 0..(nextId - 1) :
           a < b /\ c < d /\ << a, b >> # << c, d >>
               => generateKey(a, b) # generateKey(d, c)

\* the bodies this step has put in the body list have ids that were not
\* given out before it, and Rectangle.nextId never goes back
NewIdsFresh ==
    /\ nextId' >= nextId
    /\ \A k \in 1..Len(bodies') :
           (\A j \in 1..Len(bodies) : bodies[j] # bodies'[k])
               => rects'[bodies'[k]].id >= nextId /\ rects'[bodies'[k]].id < nextId'

\* C16.  Across construction, addRandomBox and reset, a body gets an id that
\* no body created before it has (ids are given out in increasing order and
\* never again), the ids in the body list are strictly increasing with the
\* list index, and two different unordered pairs of ids never have the same
\* cache key.
C16_UniqueIds == []IdsInOrder /\ [][NewIdsFresh]_vars

\* a box has been added to a world that was reset before: three bodies, the
\* first of which is not body 0
C16_Witness ==
    /\ call.name = "addRandomBox"
    /\ Len(bodies) = 3
    /\ Bodies[1].id > 0

RECURSIVE PointsFrom(_)
\* the contact points of contact c and of the contacts after it, each as
\* << contact, point >>, in the order the passes go through them
PointsFrom(c) ==
    IF c > Len(contacts) THEN << >>
    ELSE [i \in 1..Len(contacts[c].contactPoints) |-> << c, i >>] \o PointsFrom(c + 1)

Points == PointsFrom(1)

RECURSIVE RestingUpTo(_)
\* the world after applyRestingForces has treated the first n contact points
RestingUpTo(n) ==
    IF n = 0 THEN World
    ELSE restingPoint(RestingUpTo(n - 1), Points[n][1], Points[n][2])

\* the relative velocity along the normal at point i of contact c of world
\* w, from the combined velocities (real velocity minus cached bias) of the
\* two bodies
RestingRelVel(w, c, i) ==
    LET contact == w.contacts[c]
        a == w.rects[contact.bodyA]
        b == w.rects[contact.bodyB]
        cache == getContactCache(w, contact.bodyA, contact.bodyB)
    IN  dot(subtract(velAtContact(subtract(a.velocity, cache.restingVelocityA),
                                  subtract(contact.contactPoints[i], a.position),
                                  a.angularVelocity - cache.restingAngularVelocityA),
                     velAtContact(subtract(b.velocity, cache.restingVelocityB),
                                  subtract(contact.contactPoints[i], b.position),
                                  b.angularVelocity - cache.restingAngularVelocityB)),
            contact.normal)

\* the length of the impulse along the normal of magnitude
\* -(1 + e) * relative normal velocity * collision mass, e = 0
NormalForce(w, c, i) ==
    length(multiply(w.contacts[c].normal,
                    Mul(Mul(-(Num(1) + 0), RestingRelVel(w, c, i)),
                        w.contacts[c].collisionMasses[i])))

\* this step is the resting pass, and the worlds it goes through point by
\* point end in the world it leaves
RestingPass ==
    /\ call'.name = "applyRestingForces"
    /\ RestingUpTo(Len(Points)).rects = rects'
    /\ RestingUpTo(Len(Points)).contacts = contacts'

\* C17 as stated.  In the resting pass the normal impulse of a separating
\* point is not rejected: the force stored for the point is the length of
\* the impulse of magnitude -(1 + e) * relative normal velocity * collision
\* mass.
C17_RestingKeepsSeparatingStated ==
    [][ call'.name = "applyRestingForces" =>
          /\ RestingPass
          /\ \A n \in 1..Len(Points) :
                RestingRelVel(RestingUpTo(n - 1), Points[n][1], Points[n][2]) < 0
                  => contacts'[Points[n][1]].normalForceMagnitudes[Points[n][2]]
                       = NormalForce(RestingUpTo(n - 1), Points[n][1], Points[n][2])
      ]_vars

\* C17.  In the resting pass the normal impulse of a separating point
\* (relative normal velocity below 0) is rejected: the impulse is zero and
\* the force stored for the point is 0.  For a point that is not separating
\* the force stored is the length of the impulse of magnitude
\* -(1 + e) * relative normal velocity * collision mass.
C17_RestingRejectsSeparating ==
    [][ call'.name = "applyRestingForces" =>
          /\ RestingPass
          /\ \A n \in 1..Len(Points) :
                contacts'[Points[n][1]].normalForceMagnitudes[Points[n][2]]
                  = IF RestingRelVel(RestingUpTo(n - 1), Points[n][1], Points[n][2]) < 0
                    THEN 0
                    ELSE NormalForce(RestingUpTo(n - 1), Points[n][1], Points[n][2])
      ]_vars

\* the resting pass has run and has stored no normal force for a point
\* with a collision mass that is separating, and a normal force for another
C17_Witness ==
    /\ After("applyRestingForces")
    /\ \E c \in 1..Len(contacts) :
         \E i \in 1..Len(contacts[c].contactPoints) :
            /\ contacts[c].collisionMasses[i] > 0
            /\ contacts[c].normalForceMagnitudes[i] = 0
            /\ NormalForce(World, c, i) > 0
            /\ RestingRelVel(World, c, i) < 0
    /\ \E c \in 1..Len(contacts) :
         \E i \in 1..Len(contacts[c].contactPoints) :
            contacts[c].normalForceMagnitudes[i] > 0

\* the relative velocity along the normal at point i of contact c of world
\* w, from the real velocities of the two bodies
RelVel(w, c, i) ==
    LET contact == w.contacts[c]
        a == w.rects[contact.bodyA]
        b == w.rects[contact.bodyB]
    IN  dot(subtract(velAtContact(a.velocity,
                                  subtract(contact.contactPoints[i], a.position),
                                  a.angularVelocity),
                     velAtContact(b.velocity,
                                  subtract(contact.contactPoints[i], b.position),
                                  b.angularVelocity)),
            contact.normal)

\* the contact points of the world, each as << contact, point >>
AllPoints ==
    { << c, i >> \in (1..Len(contacts)) \X (1..8) : i <= Len(contacts[c].contactPoints) }

\* C18 as stated.  For the same contact point, body velocities and stored
\* normal force, the impulse of the normal-collision pass is the impulse of
\* the error-correction pass.
C18_SameImpulseStated ==
    \A p \in AllPoints : normalImpulse(World, p[1], p[2]) = errorImpulse(World, p[1], p[2])

\* C18.  For the same contact point, body velocities and stored normal
\* force, the impulse of the normal-collision pass is the impulse of the
\* error-correction pass if the point is not separating along the normal
\* and the delta angular velocity of bodyB is its real angular velocity.
\* (The normal-collision pass rejects the normal impulse of a separating
\* point, the error-correction pass keeps it; the friction of the
\* error-correction pass reads the delta angular velocity of bodyB.)
C18_SameImpulse ==
    \A p \in AllPoints :
        /\ RelVel(World, p[1], p[2]) >= 0
        /\ rects[contacts[p[1]].bodyB].deltaAngularVelocity
             = rects[contacts[p[1]].bodyB].angularVelocity
        => normalImpulse(World, p[1], p[2]) = errorImpulse(World, p[1], p[2])

\* the error-correction pass is about to run on a point that is not
\* separating, between a turning bodyA and a bodyB whose delta angular
\* velocity is its angular velocity, and the two impulses are not zero
C18_Witness ==
    /\ After("applyRestingForces")
    /\ \E p \in AllPoints :
         /\ RelVel(World, p[1], p[2]) >= 0
         /\ rects[contacts[p[1]].bodyA].angularVelocity # 0
         /\ rects[contacts[p[1]].bodyB].deltaAngularVelocity
              = rects[contacts[p[1]].bodyB].angularVelocity
         /\ errorImpulse(World, p[1], p[2]) # Vector2(0, 0)

RECURSIVE ErrorUpTo(_)
\* the world after measureAndCorrectError has treated the first n contact
\* points
ErrorUpTo(n) ==
    IF n = 0 THEN World
    ELSE errorPoint(ErrorUpTo(n - 1), Points[n][1], Points[n][2])

\* the cache entry of the pair of contact c of world w
EntryOf(w, c) == getContactCache(w, w.contacts[c].bodyA, w.contacts[c].bodyB)

\* from world wb to world wa, the impulse scaled by the inverse mass has been
\* added to the cached linear bias of bodyA of contact c and subtracted from
\* that of bodyB, and likewise its torque about the contact point, scaled by
\* the inverse inertia, for the angular biases; the biases of a static body
\* and the other entries of the cache are as they were
BiasedBy(wb, wa, c, i, impulse) ==
    LET a == wb.rects[wb.contacts[c].bodyA]
        b == wb.rects[wb.contacts[c].bodyB]
        contactPoint == wb.contacts[c].contactPoints[i]
    IN  /\ EntryOf(wa, c).restingVelocityA =
             IF a.isStatic THEN EntryOf(wb, c).restingVelocityA
             ELSE add(EntryOf(wb, c).restingVelocityA, multiply(impulse, a.invMass))
        /\ EntryOf(wa, c).restingVelocityB =
             IF b.isStatic THEN EntryOf(wb, c).restingVelocityB
             ELSE subtract(EntryOf(wb, c).restingVelocityB, multiply(impulse, b.invMass))
        /\ EntryOf(wa, c).restingAngularVelocityA =
             IF a.isStatic THEN EntryOf(wb, c).restingAngularVelocityA
             ELSE EntryOf(wb, c).restingAngularVelocityA
                    + TimesInvInertia(cross(subtract(contactPoint, a.position), impulse), a)
        /\ EntryOf(wa, c).restingAngularVelocityB =
             IF b.isStatic THEN EntryOf(wb, c).restingAngularVelocityB
             ELSE EntryOf(wb, c).restingAngularVelocityB
                    - TimesInvInertia(cross(subtract(contactPoint, b.position), impulse), b)
        /\ Len(wa.contactCache) = Len(wb.contactCache)
        /\ \A k \in 1..Len(wb.contactCache) :
               k # cacheIndex(wb, a.id, b.id) => wa.contactCache[k] = wb.contactCache[k]

\* in world w the cached biases of the static bodies in contact are zero
StaticUnbiased(w) ==
    \A c \in 1..Len(w.contacts) :
        /\ w.rects[w.contacts[c].bodyA].isStatic =>
               /\ EntryOf(w, c).restingVelocityA = Vector2(0, 0)
               /\ EntryOf(w, c).restingAngularVelocityA = 0
        /\ w.rects[w.contacts[c].bodyB].isStatic =>
               /\ EntryOf(w, c).restingVelocityB = Vector2(0, 0)
               /\ EntryOf(w, c).restingAngularVelocityB = 0

Biases(entry) ==
    << entry.restingVelocityA, entry.restingVelocityB,
       entry.restingAngularVelocityA, entry.restingAngularVelocityB >>

\* this step leaves the biases of every cache entry it keeps as they were,
\* and an entry it makes has no bias
BiasesKept ==
    \A k \in 1..Len(contactCache') :
        IF MapHas(contactCache, contactCache'[k].key)
        THEN Biases(contactCache'[k])
               = Biases(contactCache[MapIndex(contactCache, contactCache'[k].key)])
        ELSE NoBias(contactCache'[k])

\* this step changes no delta accumulator, and moves no body
AccumulatorsKept ==
    \A id \in DOMAIN rects :
        /\ rects'[id].deltaVelocity = rects[id].deltaVelocity
        /\ rects'[id].deltaAngularVelocity = rects[id].deltaAngularVelocity
        /\ rects'[id].position = rects[id].position
        /\ rects'[id].angle = rects[id].angle

RestingAlong(w, c, i, collisionMass, direction, allowNegative) ==
    LET contact == w.contacts[c]
        a == w.rects[contact.bodyA]
        b == w.rects[contact.bodyB]
    IN  calculateImpulse(w, contact, i,
                         subtract(a.velocity, EntryOf(w, c).restingVelocityA),
                         subtract(b.velocity, EntryOf(w, c).restingVelocityB),
                         a.angularVelocity - EntryOf(w, c).restingAngularVelocityA,
                         b.angularVelocity - EntryOf(w, c).restingAngularVelocityB,
                         collisionMass, direction, allowNegative)

\* the impulse along a direction at point i of contact c of world w, from
\* the real velocities, with angVelB for the angular velocity of bodyB
RealAlong(w, c, i, angVelB, collisionMass, direction, allowNegative) ==
    LET contact == w.contacts[c]
        a == w.rects[contact.bodyA]
        b == w.rects[contact.bodyB]
    IN  calculateImpulse(w, contact, i, a.velocity, b.velocity,
                         a.angularVelocity, angVelB,
                         collisionMass, direction, allowNegative)

\* the normal and the unclamped tangential impulse of each solver pass at
\* point i of contact c of world w, with the pass's normal bound
PassImpulses(w, c, i) ==
    LET contact == w.contacts[c]
        b == w.rects[contact.bodyB]
        stored == contact.normalForceMagnitudes[i]
        m == contact.collisionMasses[i]
        mt == contact.tangentialCollisionMasses[i]
        restingJ == RestingAlong(w, c, i, m, contact.normal, FALSE)
        errorJ == RealAlong(w, c, i, b.angularVelocity, m, contact.normal, TRUE)
        normalJ == RealAlong(w, c, i, b.angularVelocity, m, contact.normal, FALSE)
    IN  [ resting |-> [ impulse |-> restingJ,
                        friction |-> RestingAlong(w, c, i, mt, contact.tangent, TRUE),
                        bound |-> length(restingJ) ],
          error |->   [ impulse |-> errorJ,
                        friction |-> RealAlong(w, c, i, b.deltaAngularVelocity, mt,
                                               contact.tangent, TRUE),
                        bound |-> stored + length(errorJ) ],
          normal |->  [ impulse |-> normalJ,
                        friction |-> RealAlong(w, c, i, b.angularVelocity, mt,
                                               contact.tangent, TRUE),
                        bound |-> stored + length(normalJ) ] ]

\* the friction applied for the tangential impulse f under the normal bound
\* n, between bodies a and b
Clamped(f, n, a, b) ==
    IF length(f) <= Mul(n, Min(a.staticFriction, b.staticFriction)) THEN f
    ELSE multiply(normalize(f), Mul(n, Min(a.dynamicFriction, b.dynamicFriction)))

\* the friction applied is within the static bound, is zero under a zero
\* bound, and when the tangential impulse is beyond the static bound it has
\* the direction of that impulse and the magnitude of the dynamic bound (to
\* the last digit kept)
ClampBounds(f, n, a, b) ==
    /\ length(Clamped(f, n, a, b)) <= Mul(n, Min(a.staticFriction, b.staticFriction))
    /\ n = 0 => Clamped(f, n, a, b) = Vector2(0, 0)
    /\ length(f) > Mul(n, Min(a.staticFriction, b.staticFriction)) =>
          /\ Abs(length(Clamped(f, n, a, b))
                   - Mul(n, Min(a.dynamicFriction, b.dynamicFriction))) <= 1
          /\ dot(Clamped(f, n, a, b), f) >= 0

\* the pass of impulses p applies, at point i of contact c, its normal
\* impulse plus the clamped friction: total is what the pass applies
Clamps(p, c, i, total) ==
    LET a == rects[contacts[c].bodyA]
        b == rects[contacts[c].bodyB]
    IN  /\ total = add(p.impulse, Clamped(p.friction, p.bound, a, b))
        /\ ClampBounds(p.friction, p.bound, a, b)

\* C21.  In each solver pass, with N the pass's normal bound (the normal
\* force the resting pass stores; the stored normal force plus the length of
\* the pass's own normal impulse in the other two), the impulse applied at a
\* contact point is the normal impulse plus a friction that is the
\* tangential impulse if its length is at most N * min(static frictions),
\* and else has the length N * min(dynamic frictions) and its direction; so
\* the friction applied is never longer than N * min(static frictions), and
\* is zero when N is zero.
C21_FrictionClamp ==
    \A p \in AllPoints :
        LET c == p[1]
            i == p[2]
            q == PassImpulses(World, c, i)
        IN  /\ Clamps(q.error, c, i, errorImpulse(World, c, i))
            /\ Clamps(q.normal, c, i, normalImpulse(World, c, i))
            /\ ClampBounds(q.resting.friction, q.resting.bound,
                           rects[contacts[c].bodyA], rects[contacts[c].bodyB])
            /\ restingPoint(World, c, i).rects =
                 applyImpulseToVelocities(
                     World, contacts[c], i,
                     add(q.resting.impulse,
                         Clamped(q.resting.friction, q.resting.bound,
                                 rects[contacts[c].bodyA], rects[contacts[c].bodyB])),
                     TRUE, FALSE, FALSE).rects

\* a point whose tangential impulse in the resting pass is beyond the static
\* bound of a normal force that is not zero (the dynamic friction is
\* applied), and a point whose tangential impulse is within it
C21_Witness ==
    /\ After("separateObjects")
    /\ \E p \in AllPoints :
         LET q == PassImpulses(World, p[1], p[2]).resting
         IN  /\ q.bound > 0
             /\ length(q.friction)
                  > Mul(q.bound, Min(rects[contacts[p[1]].bodyA].staticFriction,
                                     rects[contacts[p[1]].bodyB].staticFriction))
    /\ \E p \in AllPoints :
         LET q == PassImpulses(World, p[1], p[2]).resting
         IN  /\ q.friction # Vector2(0, 0)
             /\ length(q.friction)
                  <= Mul(q.bound, Min(rects[contacts[p[1]].bodyA].staticFriction,
                                      rects[contacts[p[1]].bodyB].staticFriction))

RECURSIVE SeparateUpTo(_)
\* the world after separateObjects has treated the first n contact points
SeparateUpTo(n) ==
    IF n = 0 THEN World
    ELSE separatePoint(SeparateUpTo(n - 1), Points[n][1], Points[n][2])

\* body id is in world wa where it was in world wb, moved by the vector by
MovedBy(wb, wa, id, by) ==
    wa.rects[id].position =
        IF wb.rects[id].isStatic THEN wb.rects[id].position
        ELSE add(wb.rects[id].position, multiply(by, wb.rects[id].invMass))

\* from world wb to world wa, the separation of point i of contact c: no
\* body has moved or turned if the penetration is at most 2; else bodyA has
\* moved against the normal and bodyB along it, by
\* (penetration - 2) * collision mass * 0.3 times the body's inverse mass,
\* and the other bodies are as they were
SeparatedBy(wb, wa, c, i) ==
    LET contact == wb.contacts[c]
        by == multiply(contact.normal,
                       Mul(Mul(contact.penetrations[i] - Num(2),
                               contact.collisionMasses[i]),
                           300))
    IN  IF contact.penetrations[i] <= Num(2) THEN wa.rects = wb.rects
        ELSE /\ MovedBy(wb, wa, contact.bodyA, multiply(by, Num(-1)))
             /\ MovedBy(wb, wa, contact.bodyB, by)
             /\ \A id \in DOMAIN wb.rects :
                   id \notin {contact.bodyA, contact.bodyB} =>
                       wa.rects[id] = wb.rects[id]

\* C22.  The position separation corrects poses only, with a slop: for a
\* contact point with a penetration of at most 2 it leaves the positions and
\* angles of both bodies as they are; for a larger penetration it moves
\* bodyA against the normal and bodyB along it by
\* (penetration - 2) * collision mass * 0.3, scaled by the body's inverse
\* mass; and it changes no velocity, no angular velocity, no delta
\* accumulator, no contact and no cache entry.
C22_SeparationIsPoseOnly ==
    [][ call'.name = "separateObjects" =>
          /\ contactCache' = contactCache
          /\ contacts' = contacts
          /\ \A id \in DOMAIN rects :
                [rects'[id] EXCEPT !.position = rects[id].position,
                                   !.angle = rects[id].angle] = rects[id]
          /\ SeparateUpTo(Len(Points)).rects = rects'
          /\ \A n \in 1..Len(Points) :
                SeparatedBy(SeparateUpTo(n - 1), SeparateUpTo(n),
                            Points[n][1], Points[n][2]) ]_vars

\* the separation has run on a point with a collision mass that penetrates
\* by more than 2 and on one that penetrates by less, but does
C22_Witness ==
    /\ After("separateObjects")
    /\ \E p \in AllPoints :
         /\ contacts[p[1]].collisionMasses[p[2]] > 0
         /\ contacts[p[1]].penetrations[p[2]] > Num(2)
    /\ \E p \in AllPoints :
         /\ contacts[p[1]].collisionMasses[p[2]] > 0
         /\ contacts[p[1]].penetrations[p[2]] > 0
         /\ contacts[p[1]].penetrations[p[2]] <= Num(2)

\* the contact list cs has a contact of the pair of the cache entry
InContact(cs, entry) ==
    \E k \in 1..Len(cs) : generateKey(cs[k].bodyA, cs[k].bodyB) = entry.key

\* an entry that this step has put in the cache was made by detection, for a
\* pair it reported, without biases and with the tick as its time
MadeByDetection ==
    \A k \in 1..Len(contactCache') :
        ~ MapHas(contactCache, contactCache'[k].key) =>
            /\ call'.name = "detectCollisions"
            /\ InContact(contacts', contactCache'[k])
            /\ NoBias(contactCache'[k])
            /\ contactCache'[k].lastUpdateTime = currentTime'

\* detection keeps every entry of the cache, and changes only the time of
\* one whose pair it reports, to the tick
RefreshedByDetection ==
    \A k \in 1..Len(contactCache) :
        /\ MapHas(contactCache', contactCache[k].key)
        /\ contactCache'[MapIndex(contactCache', contactCache[k].key)] =
             IF InContact(contacts', contactCache[k])
             THEN [contactCache[k] EXCEPT !.lastUpdateTime = currentTime']
             ELSE contactCache[k]

\* C23.  A cache entry is created only by the detection of a tick that
\* reports its pair while the cache has no entry of its key; the new entry
\* has zero linear and angular biases for both bodies and the tick as its
\* lastUpdateTime; and detection of a pair that has an entry only sets its
\* lastUpdateTime to the tick: it neither replaces the entry nor resets its
\* biases.
C23_LazyCacheCreation ==
    [][ /\ MadeByDetection
        /\ call'.name = "detectCollisions" => RefreshedByDetection ]_vars

\* the detection of a tick after the first has refreshed an entry that has
\* biases
C23_Witness ==
    /\ After("detectCollisions")
    /\ currentTime > 1
    /\ \E k \in 1..Len(contactCache) :
         /\ contactCache[k].lastUpdateTime = currentTime
         /\ InContact(contacts, contactCache[k])
         /\ ~ NoBias(contactCache[k])

\* the keys of the entries of a cache
Keys(map) == { map[k].key : k \in 1..Len(map) }

\* the cache in the opposite order
Reversed(map) == [k \in 1..Len(map) |-> map[Len(map) + 1 - k]]

\* every entry of the cache is at least 0 and at most EvictionWindow ticks
\* old; the cache has one entry per key and no more entries than there are
\* unordered pairs of bodies; and the eviction would keep the same entries if
\* it went through the cache in the opposite order
CacheBounded ==
    /\ \A k \in 1..Len(contactCache) :
          /\ currentTime - contactCache[k].lastUpdateTime >= 0
          /\ currentTime - contactCache[k].lastUpdateTime <= EvictionWindow
    /\ Cardinality(Keys(contactCache)) = Len(contactCache)
    /\ 2 * Len(contactCache) <= Len(bodies) * (Len(bodies) - 1)
    /\ Keys(cleanupContactCache([World EXCEPT !.contactCache = Reversed(@)]).contactCache)
         = Keys(cleanupContactCache(World).contactCache)

\* an unpaused step removes from the cache exactly the entries that, at the
\* new tick, are more than EvictionWindow ticks old: those of the pairs it
\* does not report, last updated more than EvictionWindow ticks before
EvictedExactly ==
    call'.name = "update" /\ currentTime' = currentTime + 1 =>
        \A k \in 1..Len(contactCache) :
            ~ MapHas(contactCache', contactCache[k].key)
              <=> /\ ~ Colliding(contacts', contactCache[k])
                  /\ currentTime' - contactCache[k].lastUpdateTime > EvictionWindow

\* C24.  After every step, every cache entry is between 0 and EvictionWindow
\* ticks old; the entries an unpaused step removes are exactly those whose
\* age exceeds the window, in whatever order the cache is gone through; and
\* the cache never has more entries than there are unordered pairs of bodies
\* in the body list.
C24_CacheBounded == []CacheBounded /\ [][EvictedExactly]_vars

\* a step has left two entries in the cache, one of them of a pair that is
\* no longer in contact
C24_Witness ==
    /\ call.name = "update"
    /\ Len(contactCache) >= 2
    /\ \E k \in 1..Len(contactCache) :
          /\ currentTime - contactCache[k].lastUpdateTime > 0
          /\ ~ Colliding(contacts, contactCache[k])

\* the world the step would leave if the pointer had been released before it
Released == update(handleMouseUp(World))

\* body id is, after this step, where the step would have left it with the
\* pointer released, but for a tenth of the way from there to the point
\* (pointer - grabOffset), and with 0.6 of the velocity and of the angular
\* velocity it would have had
Dragged(id) ==
    rects'[id] =
        [Released.rects[id] EXCEPT
            !.position = add(@, multiply(subtract(subtract(mousePosition, grabOffset), @),
                                         Scale \div 10)),
            !.velocity = multiply(@, 600),
            !.angularVelocity = Mul(@, 600)]

\* C25.  pointerUp sets the grabbed-body reference to none, the grab offset
\* to zero and the pointer-down flag to false, and touches no body; while no
\* body is grabbed a step leaves the bodies where it would with the pointer
\* elsewhere; while a body is grabbed and the pointer is down, an unpaused
\* step moves that body a tenth of the remaining distance towards
\* (pointer - grabOffset) and multiplies its velocity and its angular
\* velocity by 0.6, and the interaction touches no other body.
C25_PointerHoldAndRelease ==
    [][ /\ call'.name = "handleMouseUp" =>
             /\ grabbedBody' = null
             /\ grabOffset' = Vector2(0, 0)
             /\ isMouseDown' = FALSE
             /\ bodies' = bodies
             /\ \A k \in 1..Len(bodies) : rects'[bodies[k]] = rects[bodies[k]]
        /\ call'.name = "update" /\ ~ isPaused =>
             IF grabbedBody # null /\ isMouseDown
             THEN /\ Dragged(grabbedBody)
                  /\ \A k \in 1..Len(bodies) :
                        bodies[k] # grabbedBody =>
                            rects'[bodies[k]] = Released.rects[bodies[k]]
             ELSE \A k \in 1..Len(bodies) :
                    /\ rects'[bodies[k]] = Released.rects[bodies[k]]
                    /\ rects'[bodies[k]]
                         = update(handleMouseMove(World, 0, 0)).rects[bodies[k]] ]_vars

\* a step has dragged the grabbed box, which moves, towards a pointer that
\* has moved away from where it grabbed the box
C25_Witness ==
    /\ call.name = "update"
    /\ ~ isPaused
    /\ grabbedBody # null
    /\ isMouseDown
    /\ rects[grabbedBody].velocity # Vector2(0, 0)
    /\ subtract(mousePosition, grabOffset) # rects[grabbedBody].position
    /\ mousePosition = GroundPoint

\* C26.  In every reachable state the grabbed-body reference is none or a
\* body of the current body list, so that no body discarded by reset() is
\* still referenced by the pointer interaction or changed by later steps.
C26_GrabbedIsListed ==
    grabbedBody = null \/ \E k \in 1..Len(bodies) : bodies[k] = grabbedBody

\* the Map has an entry under the key of the contact's pair, so that
\* getContactCache finds one, and that entry was stamped in this tick
Cached(contact) ==
    /\ MapHas(contactCache, ContactCache(contact.bodyA, contact.bodyB).key)
    /\ getContactCache(World, contact.bodyA, contact.bodyB).lastUpdateTime = currentTime

\* C27.  Every contact has its cache entry: wherever in a tick a solver pass
\* or the resting decay looks up the cache for a contact of the contact list,
\* the entry exists, and after a completed step every contact of the list
\* has an entry whose lastUpdateTime is the current tick.
C27_ContactsAreCached ==
    \A c \in 1..Len(contacts) : Cached(contacts[c])

\* a tick after the first has run to its end with two pairs in contact,
\* while the cache also holds an entry of a pair that is not
C27_Witness ==
    /\ After("cleanupContactCache")
    /\ currentTime > 1
    /\ Len(contacts) >= 2
    /\ Len(contactCache) > Len(contacts)

\* bodyA of the contact comes before its bodyB in the body list and has the
\* smaller id
InListOrder(contact) ==
    /\ IndexOf(contact.bodyA) < IndexOf(contact.bodyB)
    /\ contact.bodyA < contact.bodyB

\* the entry that getContactCache returns for the contact has the contact's
\* bodyA as its bodyA and the contact's bodyB as its bodyB
SameRoles(contact) ==
    /\ getContactCache(World, contact.bodyA, contact.bodyB).bodyA = contact.bodyA
    /\ getContactCache(World, contact.bodyA, contact.bodyB).bodyB = contact.bodyB

\* C28.  Contact/cache role alignment: for every contact, body A is the body
\* with the smaller list index and the smaller id, and the cache entry looked
\* up for the contact was created with the same body as its A side and the
\* same body as its B side, so the cached biases are never swapped.
C28_RolesAligned ==
    \A c \in 1..Len(contacts) : InListOrder(contacts[c]) /\ SameRoles(contacts[c])

\* after a reset, whose bodies have new ids, a box added to the new world has
\* come into contact with another body
C28_Witness ==
    /\ call.name = "update"
    /\ bodies[1] # 0
    /\ \E c \in 1..Len(contacts) : IndexOf(contacts[c].bodyB) = 3

\* the world as the detection of the next tick leaves it
Detected == detectCollisions([World EXCEPT !.currentTime = @ + 1])

\* an entry whose pair this step does not report in contact, and which the
\* step keeps, has after the step the biases it had before
KeptOverGap ==
    \A k \in 1..Len(contactCache) :
        ~ InContact(contacts', contactCache[k])
        /\ MapHas(contactCache', contactCache[k].key) =>
            Biases(contactCache'[MapIndex(contactCache', contactCache[k].key)])
              = Biases(contactCache[k])

\* the solver passes of this step find, for every pair the step reports in
\* contact, the biases the pair's entry had before the step if the cache had
\* one, whatever its age, and zero biases if it had none
Resumed ==
    /\ Keys([c \in 1..Len(contacts') |-> EntryOf(Detected, c)]) =
         { generateKey(contacts'[c].bodyA, contacts'[c].bodyB) : c \in 1..Len(contacts') }
    /\ \A c \in 1..Len(Detected.contacts) :
          IF MapHas(contactCache, EntryOf(Detected, c).key)
          THEN Biases(EntryOf(Detected, c))
                 = Biases(contactCache[MapIndex(contactCache, EntryOf(Detected, c).key)])
          ELSE NoBias(EntryOf(Detected, c))

\* C29.  Warm-start persistence across gaps: a tick in which a pair is not in
\* contact leaves the resting biases of its cache entry unchanged, so a pair
\* that collides again within the eviction window resumes with the biases it
\* had at the end of its last contact tick, and a pair that collides again
\* after its entry was evicted starts from zero biases.
C29_WarmStartAcrossGaps ==
    [][ call'.name = "update" /\ currentTime' = currentTime + 1 =>
            KeptOverGap /\ Resumed ]_vars

\* a pair has been out of contact for the whole eviction window, and its
\* entry still has the biases of its last contact tick
C29_Witness ==
    /\ call.name = "update"
    /\ \E k \in 1..Len(contactCache) :
          /\ currentTime - contactCache[k].lastUpdateTime = EvictionWindow
          /\ ~ InContact(contacts, contactCache[k])
          /\ contactCache[k].restingVelocityB # Vector2(0, 0)

\* the world in which the error-correction pass of the next tick starts
BeforeErrorPass ==
    applyRestingForces(
    separateObjects(
    calculateCollisionMasses(
    integrateMotion(
    applyForces(
    resetDeltaVelocities(Detected))))))

\* no body has a delta angular velocity, a static body has no delta velocity,
\* and the delta velocity of a dynamic body is zero or the gravity vector
DeltasBounded ==
    \A id \in DOMAIN rects :
        /\ rects[id].deltaAngularVelocity = 0
        /\ rects[id].isStatic => rects[id].deltaVelocity = Vector2(0, 0)
        /\ rects[id].deltaVelocity \in {Vector2(0, 0), gravity}

\* an unpaused step leaves every dynamic body of the list with the gravity
\* vector as its delta velocity, and its error-correction pass finds, and
\* leaves, every body of a contact with a delta angular velocity of 0; any
\* other operation leaves the accumulators of the bodies there were as they
\* are, and those of a body it makes zero
DeltasStepped ==
    IF call'.name = "update" /\ ~ isPaused
    THEN /\ \A k \in 1..Len(bodies') :
              ~ rects'[bodies'[k]].isStatic => rects'[bodies'[k]].deltaVelocity = gravity
         /\ \A c \in 1..Len(BeforeErrorPass.contacts) :
              /\ BeforeErrorPass.rects[BeforeErrorPass.contacts[c].bodyB]
                    .deltaAngularVelocity = 0
              /\ measureAndCorrectError(BeforeErrorPass)
                    .rects[BeforeErrorPass.contacts[c].bodyB].deltaAngularVelocity = 0
    ELSE \A id \in DOMAIN rects' :
            IF id \in DOMAIN rects
            THEN /\ rects'[id].deltaVelocity = rects[id].deltaVelocity
                 /\ rects'[id].deltaAngularVelocity = rects[id].deltaAngularVelocity
            ELSE /\ rects'[id].deltaVelocity = Vector2(0, 0)
                 /\ rects'[id].deltaAngularVelocity = 0

====
